---- MODULE Spec2Model ----
(***************************************************************************)
(* Model of the TCP stream reassembler of mbnsc (stream_reassembler.go)    *)
(* and of the flow identity it is keyed by (FlowKey).                      *)
(*                                                                         *)
(* Byte slices are kept run-length encoded: a []byte is a sequence of      *)
(* runs <<b, n>> (n >= 1 copies of byte b, adjacent runs of different      *)
(* bytes), so that buffers of the real capacity (65535 bytes) and real     *)
(* 16-bit record lengths are represented exactly.                          *)
(***************************************************************************)
EXTENDS Integers, Sequences, FiniteSets, TLC

\* ---------------------------------------------------------------- bounds
MaxCalls == 3          \* ProcessPacket calls in one behaviour
MaxTime  == 8          \* the clock runs over 0..MaxTime seconds
MaxStores == 3         \* Store calls in one behaviour
MaxPackets == 2        \* packets the capture loop takes in one behaviour

\* ------------------------------------------------------ program constants
MaxBufferSize == 65535
StreamTimeout == 3
CleanupInterval == 1
TLSHandshakeType == 22         \* 0x16

\* uint32 (tcp.Seq, NextSeq) as its two 16-bit halves <<high, low>>: the
\* value is high * 65536 + low, and arithmetic wraps at 2^32.
Half == 65536
U32(n) == <<(n \div Half) % Half, n % Half>>
\* Variant: the carry out of the upper half is kept.
U32AddNoWrap(a, n) ==
    <<a[1] + (a[2] + n) \div Half, (a[2] + n) % Half>>

U32Add(a, n) ==
    <<(a[1] + (a[2] + n) \div Half) % Half, (a[2] + n) % Half>>
U32Greater(a, b) == a[1] > b[1] \/ (a[1] = b[1] /\ a[2] > b[2])
U32Less(a, b) == U32Greater(b, a)

\* ------------------------------------------------------------ byte slices
RECURSIVE len(_)
len(b) == IF b = <<>> THEN 0 ELSE b[1][2] + len(Tail(b))

RECURSIVE ByteAt(_, _)
ByteAt(b, i) == IF i < b[1][2] THEN b[1][1] ELSE ByteAt(Tail(b), i - b[1][2])

append(b, p) ==
    IF b = <<>> THEN p
    ELSE IF p = <<>> THEN b
    ELSE IF b[Len(b)][1] = p[1][1]
         THEN SubSeq(b, 1, Len(b) - 1)
              \o << <<p[1][1], b[Len(b)][2] + p[1][2]>> >> \o Tail(p)
         ELSE b \o p

RECURSIVE SliceTo(_, _)
SliceTo(b, n) ==
    IF n = 0 \/ b = <<>> THEN <<>>
    ELSE IF b[1][2] >= n THEN << <<b[1][1], n>> >>
    ELSE <<b[1]>> \o SliceTo(Tail(b), n - b[1][2])

Nil == <<>>

\* --------------------------------------------------------------- FlowKey
PortString(p) ==
    CASE p = 443 -> "443(https)"
      [] p = 80 -> "80(http)"
      [] p = 53 -> "53(domain)"
      [] OTHER -> ToString(p)

FlowKey(srcIP, dstIP, srcPort, dstPort, proto) ==
    [SrcIP |-> srcIP, DstIP |-> dstIP, SrcPort |-> srcPort,
     DstPort |-> dstPort, Proto |-> proto]

EmptyFlowKey == FlowKey("", "", "", "", "")

Reverse(fk) == FlowKey(fk.DstIP, fk.SrcIP, fk.DstPort, fk.SrcPort, fk.Proto)

\* Variant: both directions of a connection share the client's key.
PacketFlowKeyUndirected(p) ==
    IF p.srcPort < p.dstPort
    THEN FlowKey(p.dst, p.src, PortString(p.dstPort), PortString(p.srcPort),
                 "TCP")
    ELSE FlowKey(p.src, p.dst, PortString(p.srcPort), PortString(p.dstPort),
                 "TCP")

\* The flow key ProcessPacket builds for a TCP packet.
PacketFlowKey(p) ==
    FlowKey(IF p.hasNet THEN p.src ELSE "",
            IF p.hasNet THEN p.dst ELSE "",
            PortString(p.srcPort), PortString(p.dstPort), "TCP")

\* ---------------------------------------------------------- StreamBuffer
StreamBuffer(buffer, lastActivity, nextSeq, initialized) ==
    [Buffer |-> buffer, LastActivity |-> lastActivity,
     NextSeq |-> nextSeq, Initialized |-> initialized]

NewStreamBuffer(t) == StreamBuffer(<<>>, t, U32(0), FALSE)

\* Variant: data that is not a TLS record is cut to the 5 header bytes.
peekTLSRecordHeaderOnly(buffer) ==
    IF len(buffer) < 5 THEN [ready |-> FALSE, data |-> Nil]
    ELSE IF ByteAt(buffer, 0) # TLSHandshakeType
    THEN [ready |-> TRUE, data |-> SliceTo(buffer, 5)]
    ELSE LET recordLen == ByteAt(buffer, 3) * 256 + ByteAt(buffer, 4)
             totalLen  == 5 + recordLen
         IN  IF len(buffer) >= totalLen
             THEN [ready |-> TRUE, data |-> SliceTo(buffer, totalLen)]
             ELSE [ready |-> FALSE, data |-> Nil]

\* Variant: the 5 header bytes are left out of the completeness test.
peekTLSRecordBodyOnly(buffer) ==
    IF len(buffer) < 5 THEN [ready |-> FALSE, data |-> Nil]
    ELSE IF ByteAt(buffer, 0) # TLSHandshakeType
    THEN [ready |-> TRUE, data |-> buffer]
    ELSE LET recordLen == ByteAt(buffer, 3) * 256 + ByteAt(buffer, 4)
             totalLen  == 5 + recordLen
         IN  IF len(buffer) >= recordLen
             THEN [ready |-> TRUE, data |-> SliceTo(buffer, totalLen)]
             ELSE [ready |-> FALSE, data |-> Nil]

\* peekTLSRecord: is the buffer a complete unit, and which bytes are it.
peekTLSRecord(buffer) ==
    IF len(buffer) < 5 THEN [ready |-> FALSE, data |-> Nil]
    ELSE IF ByteAt(buffer, 0) # TLSHandshakeType
    THEN [ready |-> TRUE, data |-> buffer]
    ELSE LET recordLen == ByteAt(buffer, 3) * 256 + ByteAt(buffer, 4)
             totalLen  == 5 + recordLen
         IN  IF len(buffer) >= totalLen
             THEN [ready |-> TRUE, data |-> SliceTo(buffer, totalLen)]
             ELSE [ready |-> FALSE, data |-> Nil]

\* Variant: a buffer of exactly MaxBufferSize bytes counts as overflow.
FitsStrict(buffer, payload) == len(buffer) + len(payload) < MaxBufferSize

\* len(stream.Buffer)+len(tcp.Payload) <= MaxBufferSize
Fits(buffer, payload) == len(buffer) + len(payload) <= MaxBufferSize

\* Variant: the first segment is buffered but the buffer is not marked.
InitStreamUnmarked(s, payload, nextSeq) ==
    [s EXCEPT !.NextSeq = nextSeq, !.Buffer = append(s.Buffer, payload)]

\* First segment of a flow: the sequence number is taken from it.
InitStream(s, payload, nextSeq) ==
    [s EXCEPT !.NextSeq = nextSeq, !.Initialized = TRUE,
              !.Buffer = append(s.Buffer, payload)]

\* Variant: the append does not advance NextSeq.
AppendStreamStaleSeq(s, payload, nextSeq) ==
    [s EXCEPT !.Buffer = append(s.Buffer, payload)]

AppendStream(s, payload, nextSeq) ==
    [s EXCEPT !.Buffer = append(s.Buffer, payload), !.NextSeq = nextSeq]

\* make([]byte, 0, MaxBufferSize) followed by append of the payload.
ResetStream(s, payload, nextSeq) ==
    [s EXCEPT !.Buffer = append(<<>>, payload), !.NextSeq = nextSeq]

\* tcp.Seq == stream.NextSeq
InOrderUpdate(s, payload, nextSeq) ==
    IF Fits(s.Buffer, payload)
    THEN AppendStream(s, payload, nextSeq)
    ELSE ResetStream(s, payload, nextSeq)

\* Variant: a segment after a gap is appended to what is buffered.
OutOfOrderUpdateAppendsGap(s, seq, payload, nextSeq) ==
    IF U32Greater(seq, s.NextSeq)
    THEN AppendStream(s, payload, nextSeq)
    ELSE s

\* Variant: every segment that is not in order resets the buffer.
OutOfOrderUpdateAlwaysResets(s, seq, payload, nextSeq) ==
    ResetStream(s, payload, nextSeq)

\* tcp.Seq != stream.NextSeq: a gap resets, a retransmission is ignored.
OutOfOrderUpdate(s, seq, payload, nextSeq) ==
    IF U32Greater(seq, s.NextSeq)
    THEN ResetStream(s, payload, nextSeq)
    ELSE s

\* The update of the flow's buffer by one payload segment at time t.
UpdateStream(stream, seq, payload, t) ==
    LET s       == [stream EXCEPT !.LastActivity = t]
        nextSeq == U32Add(seq, len(payload))
    IN  IF ~s.Initialized
        THEN InitStream(s, payload, nextSeq)
        ELSE IF seq = s.NextSeq
        THEN InOrderUpdate(s, payload, nextSeq)
        ELSE OutOfOrderUpdate(s, seq, payload, nextSeq)

\* Variant: a buffer is expired as soon as its age reaches the timeout.
ExpiredAtTimeout(stream, t) == t - stream.LastActivity >= StreamTimeout

\* now.Sub(stream.LastActivity) > StreamTimeout
Expired(stream, t) == t - stream.LastActivity > StreamTimeout

\* ----------------------------------------------------------------- inputs
HelloA    == << <<22, 1>>, <<3, 2>> >>                  \* 16 03 03
HelloB    == << <<0, 1>>, <<5, 1>>, <<170, 2>> >>       \* 00 05 AA AA
HelloC    == << <<170, 3>> >>                           \* AA AA AA
HelloCx   == << <<170, 3>>, <<187, 1>> >>               \* AA AA AA BB
OneByte   == << <<71, 1>> >>                            \* "G"
GetLine   == << <<71, 1>>, <<69, 1>>, <<84, 1>>, <<32, 1>>, <<47, 1>> >>
BigHello  == << <<22, 1>>, <<3, 2>>, <<255, 1>>, <<250, 1>>, <<170, 32763>> >>
Fill32766 == << <<170, 32766>> >>

Client == "192.168.1.10"
Server == "93.184.216.34"

TCPPacket(src, dst, srcPort, dstPort, seq, payload) ==
    [transport |-> "TCP", hasNet |-> TRUE, src |-> src, dst |-> dst,
     srcPort |-> srcPort, dstPort |-> dstPort, seq |-> seq,
     payload |-> payload, hasApp |-> (payload # <<>>)]

UDPPacket(payload) ==
    [transport |-> "UDP", hasNet |-> TRUE, src |-> Client, dst |-> Server,
     srcPort |-> 50000, dstPort |-> 53, seq |-> U32(0),
     payload |-> payload, hasApp |-> (payload # <<>>)]

\* Segments of the client-to-server flow: a record split over three packets
\* whose sequence numbers wrap past 2^32, gaps and retransmissions of it,
\* short and long non-TLS data, and segments that fill the buffer to 65534
\* bytes and then to exactly 65535 or beyond.
Segments ==
    { <<<<65535, 65533>>, HelloA>>, <<U32(0), HelloB>>, <<U32(4), HelloC>>,
      <<U32(4), HelloCx>>, <<U32(0), OneByte>>, <<U32(1), GetLine>>,
      <<U32(0), GetLine>>, <<U32(7), BigHello>>, <<U32(32775), Fill32766>>,
      <<U32(65541), OneByte>>, <<U32(65541), HelloC>>, <<U32(0), <<>> >> }

ReverseSegments == { <<U32(0), HelloA>>, <<U32(0), GetLine>> }

TCPPackets ==
    { TCPPacket(Client, Server, 50000, 443, sg[1], sg[2]) : sg \in Segments }
    \cup
    { TCPPacket(Server, Client, 443, 50000, sg[1], sg[2]) :
        sg \in ReverseSegments }

OtherPackets == { UDPPacket(pl) : pl \in {<<>>, OneByte} }

Packets == TCPPackets \cup OtherPackets

\* ------------------------------------------------------------------ state
\* Map helpers: a Go map is a function whose domain is its key set.
MapDelete(m, k) == [x \in DOMAIN m \ {k} |-> m[x]]
MapPut(m, k, v) == [x \in DOMAIN m \cup {k} |-> IF x = k THEN v ELSE m[x]]

\* -------------------------------------------------------------- DataStore
\* Go maps are functions with a growing domain; m[k]++ on a missing key
\* starts from the zero value.
Inc(m, k) ==
    IF k \in DOMAIN m THEN [m EXCEPT ![k] = @ + 1] ELSE m @@ (k :> 1)

\* The fields of PacketInfo that Store reads.
PacketInfo(ts, n, ip, lp, rp, dir, proto, flags, tls, sni, proc, dns, name, ips) ==
    [Timestamp |-> ts, Length |-> n, RemoteIP |-> ip,
     LocalPort |-> lp, RemotePort |-> rp,
     Direction |-> dir, Protocol |-> proto, TCPFlags |-> flags,
     IsTLS |-> tls, SNI |-> sni, ProcessName |-> proc,
     IsDNS |-> dns, DNSQueryName |-> name,
     DNSResponseIPs |-> ips]

NoPacketInfo ==
    PacketInfo(0, 0, "", "", "", "", "", "", FALSE, "", "", FALSE, "", <<>>)

ConnectionRecord(i) ==
    [Timestamp |-> i.Timestamp, LocalPort |-> i.LocalPort,
     RemotePort |-> i.RemotePort, PacketSize |-> i.Length,
     Direction |-> i.Direction, Protocol |-> i.Protocol,
     TCPFlags |-> i.TCPFlags, IsTLS |-> i.IsTLS, SNI |-> i.SNI,
     ProcessName |-> i.ProcessName]

\* stats.DNSNames[domain]++ for every domain of a cached list, in order.
RECURSIVE CountEach(_, _)
CountEach(m, domains) ==
    IF domains = <<>> THEN m
    ELSE CountEach(Inc(m, Head(domains)), Tail(domains))

\* Variant: a new RemoteIPStats starts with an empty DNS-name table.
SeedDNSNamesNever(cache, ip) == <<>>

\* The DNS-name table of a new RemoteIPStats: the domains already cached for
\* its IP, once each per cache entry.
SeedDNSNames(cache, ip) ==
    IF ip \in DOMAIN cache THEN CountEach(<<>>, cache[ip]) ELSE <<>>

\* The RemoteIPStats Store creates for the first packet of an IP.
NewRemoteIPStats(i, cache) ==
    [RemoteIP |-> i.RemoteIP, Records |-> <<>>,
     TotalPackets |-> 0, TotalBytes |-> 0,
     SendPackets |-> 0, RecvPackets |-> 0, SendBytes |-> 0, RecvBytes |-> 0,
     FirstSeen |-> i.Timestamp, LastSeen |-> 0,
     RemotePorts |-> <<>>, LocalPorts |-> <<>>, SNINames |-> <<>>,
     DNSNames |-> SeedDNSNames(cache, i.RemoteIP),
     Processes |-> <<>>, TLSCount |-> 0, Protocols |-> <<>>]

\* Variant: the new record is put in front of the older ones.
AppendRecordInFront(st, i) ==
    [st EXCEPT !.Records = <<ConnectionRecord(i)>> \o @]

AppendRecord(st, i) ==
    [st EXCEPT !.Records = Append(@, ConnectionRecord(i))]

\* Variant: the byte total keeps only the last packet's length.
AddTotalsLastLength(st, i) ==
    [st EXCEPT !.TotalPackets = @ + 1, !.TotalBytes = i.Length,
               !.LastSeen = i.Timestamp]

\* Variant: every packet also overwrites FirstSeen.
AddTotalsMovesFirstSeen(st, i) ==
    [st EXCEPT !.TotalPackets = @ + 1, !.TotalBytes = @ + i.Length,
               !.FirstSeen = i.Timestamp, !.LastSeen = i.Timestamp]

AddTotals(st, i) ==
    [st EXCEPT !.TotalPackets = @ + 1, !.TotalBytes = @ + i.Length,
               !.LastSeen = i.Timestamp]

\* Variant: every direction other than "send" counts as received.
AddDirectionElseRecv(st, i) ==
    IF i.Direction = "send"
    THEN [st EXCEPT !.SendPackets = @ + 1, !.SendBytes = @ + i.Length]
    ELSE [st EXCEPT !.RecvPackets = @ + 1, !.RecvBytes = @ + i.Length]

AddDirection(st, i) ==
    IF i.Direction = "send"
    THEN [st EXCEPT !.SendPackets = @ + 1, !.SendBytes = @ + i.Length]
    ELSE IF i.Direction = "recv"
         THEN [st EXCEPT !.RecvPackets = @ + 1, !.RecvBytes = @ + i.Length]
         ELSE st

\* Variant: the empty string is counted like any other value.
CountIfSetAlways(m, v) == Inc(m, v)

\* if v != "" { m[v]++ }
CountIfSet(m, v) == IF v # "" THEN Inc(m, v) ELSE m

CountDimensions(st, i) ==
    [st EXCEPT !.RemotePorts = CountIfSet(@, i.RemotePort),
               !.LocalPorts  = CountIfSet(@, i.LocalPort),
               !.SNINames    = CountIfSet(@, i.SNI),
               !.Processes   = CountIfSet(@, i.ProcessName),
               !.TLSCount    = IF i.IsTLS THEN @ + 1 ELSE @,
               !.Protocols   = CountIfSet(@, i.Protocol)]

\* The condition under which Store treats the packet as a DNS response.
IsDNSResponse(i) ==
    i.IsDNS /\ i.DNSQueryName # "" /\ Len(i.DNSResponseIPs) > 0

\* Variant: the domain is appended without looking for it first.
CacheAddAgain(cache, ip, name) ==
    MapPut(cache, ip,
           Append(IF ip \in DOMAIN cache THEN cache[ip] ELSE <<>>, name))

\* Variant: the cache keeps only the first domain seen for an IP.
CacheAddFirstOnly(cache, ip, name) ==
    IF ip \in DOMAIN cache THEN cache ELSE MapPut(cache, ip, <<name>>)

\* ds.dnsCache[ip] gains name unless it is already listed.
CacheAdd(cache, ip, name) ==
    LET list   == IF ip \in DOMAIN cache THEN cache[ip] ELSE <<>>
        exists == \E n \in 1..Len(list) : list[n] = name
    IN  MapPut(cache, ip, IF exists THEN list ELSE Append(list, name))

\* Variant: a DNS response reaches the cache only.
CountDNSNameSkipped(m, ip, name) == m

\* if ipStats, exists := ds.stats[ip]; exists { ipStats.DNSNames[name]++ }
CountDNSName(m, ip, name) ==
    IF ip \in DOMAIN m THEN [m EXCEPT ![ip].DNSNames = Inc(@, name)] ELSE m

\* The loop over info.DNSResponseIPs.
RECURSIVE RecordDNS(_, _, _)
RecordDNS(ds, name, ips) ==
    IF ips = <<>> THEN ds
    ELSE RecordDNS([stats    |-> CountDNSName(ds.stats, Head(ips), name),
                    dnsCache |-> CacheAdd(ds.dnsCache, Head(ips), name)],
                   name, Tail(ips))

\* Variant: a packet without a remote IP is stored under the empty key.
NoRemoteIPNever(i) == FALSE

NoRemoteIP(i) == i.RemoteIP = ""

\* The first part of Store: the packet's own RemoteIPStats, found or created,
\* gains the record and the counts.
StoreStatsOn(ds, i) ==
    LET st0 == IF i.RemoteIP \in DOMAIN ds.stats
               THEN ds.stats[i.RemoteIP]
               ELSE NewRemoteIPStats(i, ds.dnsCache)
        st  == CountDimensions(
                   AddDirection(AddTotals(AppendRecord(st0, i), i), i), i)
    IN  [stats    |-> MapPut(ds.stats, i.RemoteIP, st),
         dnsCache |-> ds.dnsCache]

\* The second part of Store: the DNS mapping of a response.
StoreDNSOn(ds, i) ==
    IF IsDNSResponse(i)
    THEN RecordDNS(ds, i.DNSQueryName, i.DNSResponseIPs)
    ELSE ds

\* Store, as a function of the store's two maps.
StoreOn(ds, i) ==
    IF NoRemoteIP(i) THEN ds ELSE StoreDNSOn(StoreStatsOn(ds, i), i)

\* Variant: the snapshot holds copies of the RemoteIPStats values.
GetStatsDeepCopy(m) == [k \in DOMAIN m |-> [val |-> m[k]]]

\* GetStats: a new map with the keys of ds.stats, each holding the pointer
\* ds.stats holds.  A RemoteIPStats is allocated once per IP and its map
\* entry is never reassigned, so the pointer is named by the IP.
GetStats(m) == [k \in DOMAIN m |-> [ptr |-> k]]

\* What reading through a snapshot entry yields while the store holds m.
Deref(v, m) == IF "ptr" \in DOMAIN v THEN m[v.ptr] ELSE v.val

\* sync.RWMutex: Lock needs no holder at all, RLock needs no writer.
NewRWMutex == [writer |-> "", readers |-> {}]
CanLock(mu) == mu.writer = "" /\ mu.readers = {}

\* Variant: readers are admitted while a writer holds the lock.
CanRLockAlways(mu) == TRUE

CanRLock(mu) == mu.writer = ""

RECURSIVE SumOver(_, _)
SumOver(f, S) ==
    IF S = {} THEN 0
    ELSE LET k == CHOOSE x \in S : TRUE IN f[k] + SumOver(f, S \ {k})

GetTotalPackets(m) ==
    SumOver([ip \in DOMAIN m |-> m[ip].TotalPackets], DOMAIN m)

GetTotalBytes(m) ==
    SumOver([ip \in DOMAIN m |-> m[ip].TotalBytes], DOMAIN m)

GetIPCount(m) == Cardinality(DOMAIN m)

\* The packets handed to Store.
Remote    == "1.2.3.4"
Resolver  == "8.8.8.8"
Neighbour == "192.168.1.20"
Timestamps == {1, 2}

PacketInfos ==
    UNION {
      { \* a TLS ClientHello sent to Remote
        PacketInfo(t, 100, Remote, "50000", "443(https)", "send", "TCP",
                   "PSH,ACK", TRUE, "bad.example", "curl.exe", FALSE, "",
                   <<>>),
        \* a plain segment received from Remote
        PacketInfo(t, 60, Remote, "50000", "443(https)", "recv", "TCP",
                   "ACK", FALSE, "", "", FALSE, "", <<>>),
        \* a packet with no transport layer sent to Remote
        PacketInfo(t, 28, Remote, "", "", "send", "", "", FALSE, "", "",
                   FALSE, "", <<>>),
        \* traffic between two local addresses
        PacketInfo(t, 40, Neighbour, "137(netbios-ns)", "137(netbios-ns)",
                   "local", "UDP", "", FALSE, "", "svchost.exe", FALSE, "",
                   <<>>),
        \* a DNS query sent to the resolver
        PacketInfo(t, 70, Resolver, "50001", "53(domain)", "send", "UDP", "",
                   FALSE, "", "curl.exe", TRUE, "bad.example", <<>>),
        \* the DNS response naming Remote
        PacketInfo(t, 90, Resolver, "50001", "53(domain)", "recv", "UDP", "",
                   FALSE, "", "curl.exe", TRUE, "bad.example", <<Remote>>),
        \* a DNS response listing Remote twice, and the resolver itself
        PacketInfo(t, 120, Resolver, "50001", "53(domain)", "recv", "UDP", "",
                   FALSE, "", "", TRUE, "cdn.example",
                   <<Remote, Resolver, Remote>>),
        \* a DNS response whose remote IP could not be determined
        PacketInfo(t, 90, "", "50001", "53(domain)", "send", "UDP", "",
                   FALSE, "", "", TRUE, "bad.example", <<Remote>>),
        \* a segment whose remote IP could not be determined
        PacketInfo(t, 60, "", "50000", "443(https)", "send", "TCP", "ACK",
                   FALSE, "", "", FALSE, "", <<>>) }
      : t \in Timestamps }

\* ------------------------------------------------------------ PacketParser
\* Reading payload[i]: Go checks the index and panics outside 0..len-1.  A
\* read outside the slice yields OutOfRange, which makes every value computed
\* from it negative.
OutOfRange == 0 - 70000
Rd(b, i) == IF i >= 0 /\ i < len(b) THEN ByteAt(b, i) ELSE OutOfRange

\* int(b[i])<<8 | int(b[i+1])
Rd16(b, i) == Rd(b, i) * 256 + Rd(b, i + 1)

RECURSIVE DropFirst(_, _)
DropFirst(b, n) ==
    IF n <= 0 \/ b = <<>> THEN b
    ELSE IF b[1][2] > n THEN << <<b[1][1], b[1][2] - n>> >> \o Tail(b)
    ELSE DropFirst(Tail(b), n - b[1][2])

\* b[lo:hi] for 0 <= lo <= hi <= len(b)
Slice(b, lo, hi) == SliceTo(DropFirst(b, lo), hi - lo)

\* What extractSNI and parseSNIExtension end with: the string they return,
\* or a panic on an index out of range.
SNI(name) == [sni |-> name, panic |-> FALSE]
NoSNI     == [sni |-> <<>>, panic |-> FALSE]
Panicked  == [sni |-> <<>>, panic |-> TRUE]

\* The loop of parseSNIExtension over the server name list, from pos.
RECURSIVE NameLoop(_, _)
NameLoop(data, pos) ==
    IF ~(pos + 3 <= len(data)) THEN NoSNI
    ELSE LET nameType == Rd(data, pos)
             nameLen  == Rd16(data, pos + 1)
         IN  IF nameType < 0 \/ nameLen < 0 THEN Panicked
             ELSE IF pos + 3 + nameLen > len(data) THEN NoSNI
             ELSE IF nameType = 0
                  THEN SNI(Slice(data, pos + 3, pos + 3 + nameLen))
                  ELSE NameLoop(data, pos + 3 + nameLen)

\* Variant: the list length is read without testing len(data) first.
parseSNIExtensionUnguarded(data) ==
    IF Rd16(data, 0) < 0 THEN Panicked
    ELSE IF len(data) < 2 + Rd16(data, 0) THEN NoSNI
    ELSE NameLoop(data, 2)

parseSNIExtension(data) ==
    IF len(data) < 2 THEN NoSNI
    ELSE IF Rd16(data, 0) < 0 THEN Panicked
    ELSE IF len(data) < 2 + Rd16(data, 0) THEN NoSNI
    ELSE NameLoop(data, 2)

\* Variant: the first extension decides, whatever its type.
ExtLoopFirstOnly(payload, pos, extensionsEnd) ==
    IF ~(pos + 4 <= extensionsEnd) THEN NoSNI
    ELSE LET extType == Rd16(payload, pos)
             extLen  == Rd16(payload, pos + 2)
         IN  IF extType < 0 \/ extLen < 0 THEN Panicked
             ELSE IF pos + 4 + extLen > len(payload) THEN NoSNI
             ELSE parseSNIExtension(
                      Slice(payload, pos + 4, pos + 4 + extLen))

\* The loop of extractSNI over the extensions, from pos.
RECURSIVE ExtLoop(_, _, _)
ExtLoop(payload, pos, extensionsEnd) ==
    IF ~(pos + 4 <= extensionsEnd) THEN NoSNI
    ELSE LET extType == Rd16(payload, pos)
             extLen  == Rd16(payload, pos + 2)
         IN  IF extType < 0 \/ extLen < 0 THEN Panicked
             ELSE IF pos + 4 + extLen > len(payload) THEN NoSNI
             ELSE IF extType = 0
                  THEN parseSNIExtension(
                           Slice(payload, pos + 4, pos + 4 + extLen))
                  ELSE ExtLoop(payload, pos + 4 + extLen, extensionsEnd)

\* extractSNI from the extensions length at pos.
SNIExtensions(payload, pos) ==
    IF pos + 2 > len(payload) THEN NoSNI
    ELSE LET extensionsLen == Rd16(payload, pos)
         IN  IF extensionsLen < 0 THEN Panicked
             ELSE IF pos + 2 + extensionsLen > len(payload) THEN NoSNI
             ELSE ExtLoop(payload, pos + 2, pos + 2 + extensionsLen)

\* extractSNI from the compression methods length at pos.
SNICompression(payload, pos) ==
    IF pos >= len(payload) THEN NoSNI
    ELSE LET compressionMethodsLen == Rd(payload, pos)
         IN  IF compressionMethodsLen < 0 THEN Panicked
             ELSE IF pos + 1 + compressionMethodsLen > len(payload) THEN NoSNI
             ELSE SNIExtensions(payload, pos + 1 + compressionMethodsLen)

\* extractSNI from the cipher suites length at pos.
SNICipherSuites(payload, pos) ==
    IF pos + 2 > len(payload) THEN NoSNI
    ELSE LET cipherSuitesLen == Rd16(payload, pos)
         IN  IF cipherSuitesLen < 0 THEN Panicked
             ELSE IF pos + 2 + cipherSuitesLen > len(payload) THEN NoSNI
             ELSE SNICompression(payload, pos + 2 + cipherSuitesLen)

\* Variant: the session id is skipped without testing that it is there.
SNISessionIDUnchecked(payload, pos) ==
    IF pos >= len(payload) THEN NoSNI
    ELSE SNICipherSuites(payload, pos + 1 + Rd(payload, pos))

\* extractSNI from the session id length at pos.
SNISessionID(payload, pos) ==
    IF pos >= len(payload) THEN NoSNI
    ELSE LET sessionIDLen == Rd(payload, pos)
         IN  IF sessionIDLen < 0 THEN Panicked
             ELSE IF pos + 1 + sessionIDLen > len(payload) THEN NoSNI
             ELSE SNICipherSuites(payload, pos + 1 + sessionIDLen)

\* extractSNI from the handshake header at offset 5: type, 3 length bytes,
\* 2 version bytes and 32 random bytes.
SNIHandshake(payload) ==
    IF 5 >= len(payload) THEN NoSNI
    ELSE IF Rd(payload, 5) < 0 THEN Panicked
    ELSE IF Rd(payload, 5) # 1 THEN NoSNI
    ELSE IF 6 + 3 > len(payload) THEN NoSNI
    ELSE IF 9 + 2 > len(payload) THEN NoSNI
    ELSE IF 11 + 32 > len(payload) THEN NoSNI
    ELSE SNISessionID(payload, 43)

extractSNI(payload) ==
    IF len(payload) < 6 THEN NoSNI
    ELSE IF Rd(payload, 0) # 22 THEN NoSNI
    ELSE IF len(payload) < 5 + Rd16(payload, 3) THEN NoSNI
    ELSE SNIHandshake(payload)

\* ---- payloads given to extractSNI ----
\* The run-length form of a byte string written out byte by byte.
RECURSIVE FromBytes(_)
FromBytes(w) ==
    IF Len(w) = 0 THEN <<>>
    ELSE IF Len(w) = 1 THEN << <<w[1], 1>> >>
    ELSE append(FromBytes(SubSeq(w, 1, Len(w) \div 2)),
                FromBytes(SubSeq(w, Len(w) \div 2 + 1, Len(w))))

BE16(n) == <<n \div 256, n % 256>>
NameEntry(t, name) == <<t>> \o BE16(Len(name)) \o name
Extension(t, data) == BE16(t) \o BE16(Len(data)) \o data
ServerNameExtension(entries) == Extension(0, BE16(Len(entries)) \o entries)

\* A TLS record holding one ClientHello: version, 32 random bytes, session
\* id, one cipher suite, one compression method and, unless exts is <<-1>>,
\* an extensions block.
ClientHello(sessionID, exts) ==
    LET body == <<3, 3>> \o [n \in 1..32 |-> 7] \o <<Len(sessionID)>>
                \o sessionID \o <<0, 2, 19, 1>> \o <<1, 0>>
                \o (IF exts = <<-1>> THEN <<>> ELSE BE16(Len(exts)) \o exts)
        hs   == <<1, 0>> \o BE16(Len(body)) \o body
    IN  <<22, 3, 1>> \o BE16(Len(hs)) \o hs

ExampleCom == <<101, 120, 97, 109, 112, 108, 101, 46, 99, 111, 109>>
OtherName  == <<120, 121>>
Groups     == Extension(10, <<0, 2, 0, 29>>)
Formats    == Extension(11, <<1, 0>>)

\* server_name only; server_name between two other extensions, its host
\* name after an entry of another name type and before a second host name.
HelloPlain == ClientHello(<<>>, ServerNameExtension(NameEntry(0, ExampleCom)))
HelloMixed ==
    ClientHello(<<9, 9>>,
        Groups
        \o ServerNameExtension(NameEntry(1, OtherName)
                               \o NameEntry(0, ExampleCom)
                               \o NameEntry(0, OtherName))
        \o Formats)

\* No server_name extension; no extensions block; a server_name extension
\* without a host name.
HelloNoSNI   == ClientHello(<<>>, Groups \o Formats)
HelloNoExts  == ClientHello(<<9, 9>>, <<-1>>)
HelloNoHost  ==
    ClientHello(<<>>, ServerNameExtension(NameEntry(1, OtherName)) \o Groups)

\* The first n bytes of w; the same with the record length set to n - 5, so
\* that the record says no more than is there.
Truncated(w, n) == SubSeq(w, 1, n)
TruncatedRecord(w, n) ==
    [k \in 1..n |-> IF k = 4 THEN (n - 5) \div 256
                    ELSE IF k = 5 THEN (n - 5) % 256 ELSE w[k]]

\* The offsets (from 0) in HelloPlain of: the record length, the session id
\* length, the cipher suites length, the compression methods length, the
\* extensions length, the extension length, the name list length and the
\* name length.  Each is the first byte of a one-byte or two-byte field.
LengthOffsets == {3, 43, 44, 48, 50, 54, 56, 59}
LowByteOffsets == {4, 51, 55, 57, 60}

Patched(w, offset, v) == [w EXCEPT ![offset + 1] = v]

\* kind "wellformed": a well-formed ClientHello and the name it carries;
\* kind "past": some length field points past the bytes that are there, or
\* the handshake type is not 1; kind "short": a length field is one less
\* than the structure it describes.
SNICase(w, kind, name) ==
    [payload |-> FromBytes(w), kind |-> kind, name |-> FromBytes(name)]

SNICases ==
    { SNICase(HelloPlain, "wellformed", ExampleCom),
      SNICase(HelloMixed, "wellformed", ExampleCom),
      SNICase(HelloNoSNI, "wellformed", <<>>),
      SNICase(HelloNoExts, "wellformed", <<>>),
      SNICase(HelloNoHost, "wellformed", <<>>) }
    \cup { SNICase(Truncated(w, n), "past", <<>>) :
             n \in 0..71, w \in {HelloPlain} }
    \cup { SNICase(Truncated(HelloMixed, n), "past", <<>>) :
             n \in 0..(Len(HelloMixed) - 1) }
    \cup { SNICase(TruncatedRecord(HelloPlain, n), "past", <<>>) :
             n \in 5..71 }
    \cup { SNICase(TruncatedRecord(HelloMixed, n), "past", <<>>) :
             n \in 5..(Len(HelloMixed) - 1) }
    \cup { SNICase(Patched(HelloPlain, o, 255), "past", <<>>) :
             o \in LengthOffsets }
    \cup { SNICase(Patched(HelloPlain, o, HelloPlain[o + 1] + 1), "past",
                   <<>>) : o \in LowByteOffsets }
    \cup { SNICase(Patched(HelloPlain, o, HelloPlain[o + 1] - 1), "short",
                   <<>>) : o \in LowByteOffsets }
    \cup { SNICase(Patched(HelloPlain, o, 0), "short", <<>>) :
             o \in LowByteOffsets }
    \cup { SNICase(Patched(HelloPlain, 5, 2), "past", <<>>) }

\* ---- Parse: the decoded packet ----
\* The addresses of the model: the string that Endpoint.String() gives, and
\* its four octets for an IPv4 address.
AddressTable ==
    { <<"10.0.0.5", <<10, 0, 0, 5>>>>,
      <<"100.64.0.1", <<100, 64, 0, 1>>>>,
      <<"127.0.0.1", <<127, 0, 0, 1>>>>,
      <<"169.254.1.1", <<169, 254, 1, 1>>>>,
      <<"169.255.1.1", <<169, 255, 1, 1>>>>,
      <<"172.15.255.1", <<172, 15, 255, 1>>>>,
      <<"172.16.0.1", <<172, 16, 0, 1>>>>,
      <<"172.31.255.1", <<172, 31, 255, 1>>>>,
      <<"172.32.0.1", <<172, 32, 0, 1>>>>,
      <<"192.168.1.10", <<192, 168, 1, 10>>>>,
      <<"192.168.1.20", <<192, 168, 1, 20>>>>,
      <<"192.169.1.1", <<192, 169, 1, 1>>>>,
      <<"1.2.3.4", <<1, 2, 3, 4>>>>,
      <<"8.8.8.8", <<8, 8, 8, 8>>>>,
      <<"93.184.216.34", <<93, 184, 216, 34>>>> }

\* strings.Split(ip, "."): the decimal octets of an IPv4 address; a string
\* without a dot ("" or an IPv6 address) is its own single part.
Split(ip) ==
    IF \E a \in AddressTable : a[1] = ip
    THEN LET a == CHOOSE a \in AddressTable : a[1] = ip
         IN  [n \in 1..4 |-> ToString(a[2][n])]
    ELSE <<ip>>

\* strings.HasPrefix(ip, prefix) for a prefix made of whole parts, each
\* followed by a dot: "10." is <<"10">>, "192.168." is <<"192", "168">>.
HasPrefix(ip, parts) ==
    /\ Len(Split(ip)) > Len(parts)
    /\ \A n \in 1..Len(parts) : Split(ip)[n] = parts[n]

\* fmt.Sscanf(part, "%d", &n) for a decimal octet; n stays 0 otherwise.
Sscanf(part) ==
    IF \E n \in 0..255 : ToString(n) = part
    THEN CHOOSE n \in 0..255 : ToString(n) = part
    ELSE 0

\* Variant: every address starting with 172. is local.
isLocalIPAll172(ip) ==
    \/ HasPrefix(ip, <<"10">>) \/ HasPrefix(ip, <<"192", "168">>)
    \/ HasPrefix(ip, <<"127">>) \/ HasPrefix(ip, <<"169", "254">>)
    \/ HasPrefix(ip, <<"172">>)

isLocalIP(ip) ==
    \/ HasPrefix(ip, <<"10">>) \/ HasPrefix(ip, <<"192", "168">>)
    \/ HasPrefix(ip, <<"127">>) \/ HasPrefix(ip, <<"169", "254">>)
    \/ /\ HasPrefix(ip, <<"172">>)
       /\ Len(Split(ip)) >= 2
       /\ Sscanf(Split(ip)[2]) >= 16
       /\ Sscanf(Split(ip)[2]) <= 31

\* The four branches of determineDirection.
determineDirection(i) ==
    LET srcIsLocal == isLocalIP(i.SrcIP)
        dstIsLocal == isLocalIP(i.DstIP)
        toDst(d)   == [i EXCEPT !.Direction = d, !.RemoteIP = i.DstIP,
                                !.LocalPort = i.SrcPort,
                                !.RemotePort = i.DstPort]
    IN  IF srcIsLocal /\ ~dstIsLocal THEN toDst("send")
        ELSE IF ~srcIsLocal /\ dstIsLocal
             THEN [i EXCEPT !.Direction = "recv", !.RemoteIP = i.SrcIP,
                            !.LocalPort = i.DstPort, !.RemotePort = i.SrcPort]
        ELSE IF ~srcIsLocal /\ ~dstIsLocal THEN toDst("send")
        ELSE toDst("local")

\* Variant: no upper limit on the version.
isTLSHandshakeAnyLater(payload) ==
    /\ len(payload) >= 6
    /\ Rd(payload, 0) = 22
    /\ Rd16(payload, 1) >= 769

\* 769 is 0x0301 (TLS 1.0), 772 is 0x0304 (TLS 1.3).
isTLSHandshake(payload) ==
    /\ len(payload) >= 6
    /\ Rd(payload, 0) = 22
    /\ Rd16(payload, 1) >= 769
    /\ Rd16(payload, 1) <= 772

getTLSVersionString(version) ==
    CASE version = 769 -> "TLS 1.0"
      [] version = 770 -> "TLS 1.1"
      [] version = 771 -> "TLS 1.2"
      [] version = 772 -> "TLS 1.3"
      [] OTHER -> "Unknown"

\* string(bytes) for the names of the model.
String(b) ==
    IF b = <<>> THEN ""
    ELSE IF b = FromBytes(ExampleCom) THEN "example.com"
    ELSE IF b = FromBytes(OtherName) THEN "xy"
    ELSE "?"

parseTLS(i) ==
    IF ~isTLSHandshake(i.Payload) THEN i
    ELSE [i EXCEPT !.IsTLS = TRUE,
                   !.TLSVersion = getTLSVersionString(Rd16(i.Payload, 1)),
                   !.SNI = String(extractSNI(i.Payload).sni)]

\* The addresses of the A and AAAA answers that carry one, in answer order.
RECURSIVE AnswerIPs(_)
AnswerIPs(answers) ==
    IF answers = <<>> THEN <<>>
    ELSE (IF Head(answers).Type \in {"A", "AAAA"} /\ Head(answers).IP # "nil"
          THEN <<Head(answers).IP>> ELSE <<>>)
         \o AnswerIPs(Tail(answers))

\* Variant: the QR flag is not looked at.
parseDNSAnyQR(p, i) ==
    IF ~p.dns.present THEN i
    ELSE [i EXCEPT !.IsDNS = TRUE,
                   !.DNSQueryName = IF Len(p.dns.Questions) > 0
                                    THEN p.dns.Questions[1] ELSE "",
                   !.DNSResponseIPs = AnswerIPs(p.dns.Answers)]

parseDNS(p, i) ==
    IF ~p.dns.present THEN i
    ELSE IF ~p.dns.QR THEN [i EXCEPT !.IsDNS = TRUE]
    ELSE [i EXCEPT !.IsDNS = TRUE,
                   !.DNSQueryName = IF Len(p.dns.Questions) > 0
                                    THEN p.dns.Questions[1] ELSE "",
                   !.DNSResponseIPs = AnswerIPs(p.dns.Answers)]

\* parseApplicationLayer: TLS, then DNS for UDP on port 53.
parseApplicationLayer(p, i) ==
    IF len(i.Payload) > 0
    THEN LET t == parseTLS(i)
         IN  IF t.Protocol = "UDP"
                /\ (t.SrcPort = "53(domain)" \/ t.DstPort = "53(domain)")
             THEN parseDNS(p, t)
             ELSE t
    ELSE i

parseApplicationLayerWithPayload(i) ==
    IF len(i.Payload) > 0 THEN parseTLS(i) ELSE i

\* parseNetworkLayer and parseTransportLayer on a new PacketInfo.
parseLayers(p) ==
    [Timestamp |-> p.Timestamp, Length |-> p.Length,
     SrcIP |-> IF p.hasNet THEN p.src ELSE "",
     DstIP |-> IF p.hasNet THEN p.dst ELSE "",
     Protocol |-> IF p.transport \in {"TCP", "UDP"} THEN p.transport ELSE "",
     SrcPort |-> IF p.transport \in {"TCP", "UDP"}
                 THEN PortString(p.srcPort) ELSE "",
     DstPort |-> IF p.transport \in {"TCP", "UDP"}
                 THEN PortString(p.dstPort) ELSE "",
     TCPFlags |-> IF p.transport = "TCP" THEN p.flags ELSE "",
     Payload |-> IF p.transport = "TCP" THEN p.payload
                 ELSE IF p.transport = "UDP" THEN p.udpPayload ELSE <<>>,
     IsTLS |-> FALSE, TLSVersion |-> "", SNI |-> "",
     IsDNS |-> FALSE, DNSQueryName |-> "", DNSResponseIPs |-> <<>>,
     Direction |-> "", RemoteIP |-> "", LocalPort |-> "", RemotePort |-> "",
     ProcessName |-> "", ProcessPID |-> 0]

\* Variant: the length is that of the whole reassembled unit.
ParseReadyUnitLength(p, r) ==
    LET i == [parseLayers(p) EXCEPT
                 !.Length = @ + len(r.data) - len(p.payload)]
    IN  determineDirection(
            IF len(r.data) > 0
            THEN parseApplicationLayerWithPayload([i EXCEPT !.Payload = r.data])
            ELSE parseApplicationLayer(p, i))

\* Parse after ProcessPacket returned r with ready = TRUE.
ParseReady(p, r) ==
    LET i == parseLayers(p)
    IN  determineDirection(
            IF len(r.data) > 0
            THEN parseApplicationLayerWithPayload([i EXCEPT !.Payload = r.data])
            ELSE parseApplicationLayer(p, i))

\* Parse returned nil: the packet was buffered, nothing was decoded.
NilInfo == [nil |-> TRUE]

\* ---- decoded packets given to Parse ----
NoDNS == [present |-> FALSE, QR |-> FALSE, Questions |-> <<>>, Answers |-> <<>>]

DNSLayer(qr, questions, answers) ==
    [present |-> TRUE, QR |-> qr, Questions |-> questions, Answers |-> answers]

\* A TCP segment between Client and Server as gopacket decodes it.
TCPDecoded(src, dst, srcPort, dstPort, seq, payload) ==
    [Timestamp |-> 1, Length |-> 54 + len(payload), flags |-> "ACK,PSH",
     udpPayload |-> <<>>, dns |-> NoDNS]
    @@ TCPPacket(src, dst, srcPort, dstPort, seq, payload)

\* A UDP datagram: app is what ApplicationLayer().Payload() gives, which is
\* nil when the application layer is a decoded DNS layer.
UDPDecoded(src, dst, srcPort, dstPort, udpPayload, app, hasApp, dns) ==
    [transport |-> "UDP", hasNet |-> TRUE, src |-> src, dst |-> dst,
     srcPort |-> srcPort, dstPort |-> dstPort, seq |-> U32(0),
     payload |-> app, hasApp |-> hasApp,
     Timestamp |-> 1, Length |-> 42 + len(udpPayload), flags |-> "",
     udpPayload |-> udpPayload, dns |-> dns]

\* An ARP frame: no network layer that Parse knows, no transport layer.
ARPDecoded ==
    [transport |-> "NONE", hasNet |-> FALSE, src |-> "", dst |-> "",
     srcPort |-> 0, dstPort |-> 0, seq |-> U32(0), payload |-> <<>>,
     hasApp |-> FALSE, Timestamp |-> 1, Length |-> 42, flags |-> "",
     udpPayload |-> <<>>, dns |-> NoDNS]

EmptyRecord == FromBytes(<<22, 3, 3, 0, 0>>)        \* 16 03 03 00 00
Record13    == FromBytes(<<22, 3, 4, 0, 1, 1>>)     \* TLS 1.3, 1 body byte
Record10    == FromBytes(<<22, 3, 1, 0, 1, 1>>)     \* TLS 1.0
RecordSSL3  == FromBytes(<<22, 3, 0, 0, 1, 1>>)     \* version 0x0300
Record0305  == FromBytes(<<22, 3, 5, 0, 1, 1>>)     \* version 0x0305
Record0401  == FromBytes(<<22, 4, 1, 0, 1, 1>>)     \* version 0x0401
AppData     == FromBytes(<<23, 3, 3, 0, 1, 1>>)     \* content type 0x17
Short1603   == FromBytes(<<22, 3, 1>>)              \* three bytes only
Short4      == FromBytes(<<22, 3, 2, 0>>)

\* A 12-byte DNS header, and one whose ID is 0x1603 and whose flags are 0x0100.
DNSBytes     == FromBytes(<<18, 52, 129, 128, 0, 1, 0, 2, 0, 0, 0, 0>>)
DNSBytes1603 == FromBytes(<<22, 3, 1, 0, 0, 1, 0, 0, 0, 0, 0, 0>>)

Answer(type, ip) == [Type |-> type, IP |-> ip]

AnswersMixed ==
    << Answer("CNAME", "nil"), Answer("A", "1.2.3.4"),
       Answer("AAAA", "2001:db8::1"), Answer("TXT", "nil"),
       Answer("A", "93.184.216.34"), Answer("A", "1.2.3.4") >>

ParseSegments ==
    { <<U32(0), HelloA>>, <<U32(3), HelloB>>, <<U32(7), HelloC>>,
      <<U32(0), EmptyRecord>>, <<U32(0), Record13>>, <<U32(0), Record10>>,
      <<U32(0), RecordSSL3>>, <<U32(0), Record0305>>, <<U32(0), Record0401>>,
      <<U32(0), AppData>>, <<U32(0), GetLine>>, <<U32(0), FromBytes(HelloPlain)>>,
      <<U32(0), <<>> >> }

DNSDatagrams ==
    { \* a query to the resolver, and one whose bytes look like TLS 1.0
      UDPDecoded(Client, "8.8.8.8", 50000, 53, DNSBytes, <<>>, TRUE,
                 DNSLayer(FALSE, <<"bad.example">>, <<>>)),
      UDPDecoded(Client, "8.8.8.8", 50000, 53, DNSBytes1603, <<>>, TRUE,
                 DNSLayer(FALSE, <<"bad.example">>, <<>>)),
      \* responses: mixed answers, no answers, no question
      UDPDecoded("8.8.8.8", Client, 53, 50000, DNSBytes, <<>>, TRUE,
                 DNSLayer(TRUE, <<"bad.example">>, AnswersMixed)),
      UDPDecoded("8.8.8.8", Client, 53, 50000, DNSBytes, <<>>, TRUE,
                 DNSLayer(TRUE, <<"cdn.example">>, <<>>)),
      UDPDecoded("8.8.8.8", Client, 53, 50000, DNSBytes, <<>>, TRUE,
                 DNSLayer(TRUE, <<>>, <<Answer("A", "1.2.3.4")>>)),
      \* port 53 carrying bytes that do not decode as DNS
      UDPDecoded(Client, "8.8.8.8", 50000, 53, OneByte, OneByte, TRUE, NoDNS),
      \* a DNS layer on another port (mDNS)
      UDPDecoded(Client, "8.8.8.8", 5353, 5353, DNSBytes, <<>>, TRUE,
                 DNSLayer(TRUE, <<"printer.local">>,
                          <<Answer("A", "192.168.1.20")>>)),
      \* UDP with short payloads that begin like a TLS record
      UDPDecoded(Client, Server, 50000, 443, Short1603, Short1603, TRUE, NoDNS),
      UDPDecoded(Client, Server, 50000, 443, Short4, Short4, TRUE, NoDNS),
      UDPDecoded(Client, Server, 50000, 443, Record10, Record10, TRUE, NoDNS),
      \* UDP without payload
      UDPDecoded(Client, Server, 50000, 53, <<>>, <<>>, FALSE, NoDNS) }

\* DNS over TCP on port 53: a DNS layer, but not UDP.
DNSOverTCP ==
    [TCPDecoded("8.8.8.8", Client, 53, 50000, U32(0), GetLine)
       EXCEPT !.dns = DNSLayer(TRUE, <<"bad.example">>,
                               <<Answer("A", "1.2.3.4")>>)]

ParsePackets ==
    { TCPDecoded(Client, Server, 50000, 443, sg[1], sg[2]) :
        sg \in ParseSegments }
    \cup { TCPDecoded(Server, Client, 443, 50000, U32(0), Record13),
           DNSOverTCP, ARPDecoded }
    \cup DNSDatagrams

\* Addresses at and around the edges of the five local ranges, an IPv6
\* address, and datagrams between every two of them.
Addresses == { a[1] : a \in AddressTable } \cup { "fe80::1" }

DirectionPackets ==
    { UDPDecoded(a, b, 50000, 443, OneByte, OneByte, TRUE, NoDNS) :
        a \in Addresses, b \in Addresses }
    \cup { ARPDecoded }

\* ---- initial values of the running program ----
NewProcessMonitor ==
    [tcpMap |-> <<>>, udpMap |-> <<>>, processName |-> <<>>,
     stopChan |-> FALSE, running |-> FALSE]

\* main's local pointer to a StreamBuffer: the object, whether the flow map
\* still holds it, and its LastActivity when the pointer was taken.
NoStream ==
    [key |-> EmptyFlowKey, obj |-> NewStreamBuffer(0), attached |-> FALSE,
     oldLA |-> 0]

VARIABLES
    streams,     \* sr.streams: FlowKey -> StreamBuffer (the live buffers)
    stopCh,      \* TRUE once sr.stopCh is closed
    sweeper,     \* the cleanupLoop goroutine: "running" or "exited"
    ticker,      \* TRUE when a tick is pending in ticker.C
    now,         \* time.Now(), in seconds
    calls,       \* ProcessPacket calls made so far
    op,          \* the operation that produced this state
    pkt,         \* the packet of the last ProcessPacket call
    ret,         \* what the last ProcessPacket call returned
    before,      \* streams, chain and completed as they were before op
    chain,       \* per flow: the payload segments received in sequence order
                 \* since the flow's buffer was created, concatenated
    completed,   \* flows whose last payload segment returned ready = TRUE
    stats,       \* ds.stats: remote IP -> RemoteIPStats
    dnsCache,    \* ds.dnsCache: IP -> the domains that resolved to it
    info,        \* the PacketInfo of the last Store call
    stored,      \* every PacketInfo passed to Store so far, in call order
    dsBefore,    \* stats and dnsCache as they were before the last Store
    dsMutex,     \* ds.mutex: its writer and its readers
    storePc,     \* where the goroutine calling Store is inside the call
    readPc,      \* where a goroutine calling GetStats is inside the call
    snapshot,    \* the map the last GetStats returned
    seen,        \* stats and the completed Store calls when GetStats read
    sniCase,     \* the payload last given to extractSNI, and what it is
    sniOut,      \* what extractSNI returned for it
    parsed,      \* what the last Parse call returned: a PacketInfo or nil
    mainPc,      \* where main is: in its select, inside a call, returning
    mu,          \* sr.mutex, ds.mutex and pm.mutex of the running program
    cur,         \* main's local stream pointer inside ProcessPacket
    pm,          \* the ProcessMonitor: its tables, name cache and flags
    refresher,   \* pm's goroutine: "none", "running", "refreshing", "exited"
    pid,         \* GetProcessInfoForPacket's local pid
    captured     \* what each ProcessPacket call of main returned, in order

storeVars == <<stats, dnsCache, info, stored, dsBefore>>

readVars == <<dsMutex, storePc, readPc, snapshot, seen>>

sniVars == <<sniCase, sniOut>>

parseVars == <<parsed>>

mainVars == <<mainPc, mu, cur, pm, refresher, pid, captured>>

auxVars == <<readVars, sniVars, parseVars, mainVars>>

vars == <<streams, stopCh, sweeper, ticker, now, calls, op, pkt, ret,
          before, chain, completed, stats, dnsCache, info, stored, dsBefore,
          auxVars>>

NoPacket == [transport |-> "NONE", hasNet |-> FALSE, src |-> "", dst |-> "",
             srcPort |-> 0, dstPort |-> 0, seq |-> U32(0), payload |-> <<>>,
             hasApp |-> FALSE]

Result(data, ready, flowKey) ==
    [data |-> data, ready |-> ready, flowKey |-> flowKey]

Snapshot == [streams |-> streams, chain |-> chain, completed |-> completed]

Init ==
    /\ streams = <<>>
    /\ stopCh = FALSE
    /\ sweeper = "running"
    /\ ticker = FALSE
    /\ now = 0
    /\ calls = 0
    /\ op = "NewStreamReassembler"
    /\ pkt = NoPacket
    /\ ret = Result(Nil, FALSE, EmptyFlowKey)
    /\ before = [streams |-> <<>>, chain |-> <<>>, completed |-> {}]
    /\ chain = <<>>
    /\ completed = {}
    /\ stats = <<>>
    /\ dnsCache = <<>>
    /\ info = NoPacketInfo
    /\ stored = <<>>
    /\ dsBefore = [stats |-> <<>>, dnsCache |-> <<>>]
    /\ dsMutex = NewRWMutex
    /\ storePc = "idle"
    /\ readPc = "idle"
    /\ snapshot = <<>>
    /\ seen = [stats |-> <<>>, stored |-> <<>>]
    /\ sniCase = SNICase(<<>>, "none", <<>>)
    /\ sniOut = NoSNI
    /\ parsed = NilInfo
    /\ mainPc = "Start"
    /\ mu = [sr |-> NewRWMutex, ds |-> NewRWMutex, pm |-> NewRWMutex]
    /\ cur = NoStream
    /\ pm = NewProcessMonitor
    /\ refresher = "none"
    /\ pid = 0
    /\ captured = <<>>

\* ---- history kept for stating the properties (not program state) ----
\* The flow a TCP segment belongs to: its addresses and ports.
FlowKeyOfSegment(p) ==
    [SrcIP |-> p.src, DstIP |-> p.dst, SrcPort |-> PortString(p.srcPort),
     DstPort |-> PortString(p.dstPort), Proto |-> "TCP"]

\* The declared total length of the record a byte string starts with.
RecordTotal(cat) == 5 + ByteAt(cat, 3) * 256 + ByteAt(cat, 4)

\* A byte string of in-order segments that already holds a complete unit.
ChainDone(cat) ==
    /\ len(cat) >= 5
    /\ \/ ByteAt(cat, 0) # TLSHandshakeType
       \/ len(cat) >= RecordTotal(cat)

\* chain after payload segment p of flow k: extended when p continues the
\* flow's in-order run, started when the flow has no buffer, dropped when p
\* is out of order.
ChainAfter(k, p) ==
    LET nextSeq == U32Add(p.seq, len(p.payload))
        rest    == [x \in DOMAIN chain \ {k} |-> chain[x]]
    IN  IF k \in DOMAIN chain /\ ~ChainDone(chain[k].cat)
           /\ k \in DOMAIN streams /\ p.seq = chain[k].next
        THEN rest @@ (k :> [cat |-> append(chain[k].cat, p.payload),
                            next |-> nextSeq])
        ELSE IF k \notin DOMAIN streams
        THEN rest @@ (k :> [cat |-> p.payload, next |-> nextSeq])
        ELSE rest

\* packet.Layer(layers.LayerTypeTCP) != nil
IsTCP(p) == p.transport = "TCP"

\* Variant: the empty-payload early return is missing.
EmptyPayloadNever(p) == FALSE

\* len(tcp.Payload) == 0
EmptyPayload(p) == len(p.payload) = 0

\* Variant: the application layer is not tested for nil.
NonTCPResultAlwaysReady(p) == Result(p.payload, TRUE, EmptyFlowKey)

\* What ProcessPacket returns for a packet without a TCP layer.
NonTCPResult(p) ==
    IF p.hasApp
    THEN Result(p.payload, TRUE, EmptyFlowKey)
    ELSE Result(Nil, FALSE, EmptyFlowKey)

\* Variant: a completed buffer is left in the flow map.
AfterPeekKeeps(m, flowKey, stream, ready) == MapPut(m, flowKey, stream)

\* The flow map after the completion check of flowKey's buffer.
AfterPeek(m, flowKey, stream, ready) ==
    IF ready THEN MapDelete(m, flowKey) ELSE MapPut(m, flowKey, stream)

\* ProcessPacket on flow map m at time t: the new flow map and the result.
ProcessPacketOn(m, p, t) ==
    IF ~IsTCP(p)
    THEN [streams |-> m, ret |-> NonTCPResult(p)]
    ELSE LET flowKey == PacketFlowKey(p)
         IN  IF EmptyPayload(p)
             THEN [streams |-> m, ret |-> Result(Nil, FALSE, flowKey)]
             ELSE LET stream  == IF flowKey \in DOMAIN m
                                 THEN m[flowKey]
                                 ELSE NewStreamBuffer(t)
                      updated == UpdateStream(stream, p.seq, p.payload, t)
                      peek    == peekTLSRecord(updated.Buffer)
                  IN  [streams |-> AfterPeek(m, flowKey, updated, peek.ready),
                       ret |-> IF peek.ready
                               THEN Result(peek.data, TRUE, flowKey)
                               ELSE Result(Nil, FALSE, flowKey)]

ProcessPacket(p) ==
    /\ ~stopCh
    /\ calls < MaxCalls
    /\ now + StreamTimeout < MaxTime
    /\ calls' = calls + 1
    /\ op' = "ProcessPacket"
    /\ pkt' = p
    /\ before' = Snapshot
    /\ LET r == ProcessPacketOn(streams, p, now)
       IN  /\ streams' = r.streams
           /\ ret' = r.ret
           /\ IF p.transport = "TCP" /\ p.payload # <<>>
              THEN /\ chain' = ChainAfter(FlowKeyOfSegment(p), p)
                   /\ completed' = IF r.ret.ready
                                   THEN completed \cup {FlowKeyOfSegment(p)}
                                   ELSE completed \ {FlowKeyOfSegment(p)}
              ELSE UNCHANGED <<chain, completed>>
    /\ UNCHANGED <<stopCh, sweeper, ticker, now>>
    /\ UNCHANGED storeVars
    /\ UNCHANGED auxVars

\* One tick of cleanupLoop: cleanupExpiredStreams.
cleanupExpiredStreams ==
    /\ sweeper = "running"
    /\ ticker
    /\ ticker' = FALSE
    /\ op' = "cleanupExpiredStreams"
    /\ before' = Snapshot
    /\ LET keep == {k \in DOMAIN streams : ~Expired(streams[k], now)}
       IN  /\ streams' = [k \in keep |-> streams[k]]
           /\ chain' = [k \in DOMAIN chain \cap keep |-> chain[k]]
    /\ UNCHANGED <<stopCh, sweeper, now, calls, pkt, ret, completed>>
    /\ UNCHANGED storeVars
    /\ UNCHANGED auxVars

\* cleanupLoop takes the stopCh branch of its select and returns.
cleanupLoopExit ==
    /\ sweeper = "running"
    /\ stopCh
    /\ sweeper' = "exited"
    /\ op' = "cleanupLoopExit"
    /\ before' = Snapshot
    /\ UNCHANGED <<streams, stopCh, ticker, now, calls, pkt, ret, chain,
                   completed>>
    /\ UNCHANGED storeVars
    /\ UNCHANGED auxVars

Stop ==
    /\ ~stopCh
    /\ stopCh' = TRUE
    /\ op' = "Stop"
    /\ before' = Snapshot
    /\ UNCHANGED <<streams, sweeper, ticker, now, calls, pkt, ret, chain,
                   completed>>
    /\ UNCHANGED storeVars
    /\ UNCHANGED auxVars

\* CleanupInterval passes: the clock advances and the ticker fires.
Tick ==
    /\ now + CleanupInterval <= MaxTime
    /\ now' = now + CleanupInterval
    /\ ticker' = TRUE
    /\ op' = "Tick"
    /\ before' = Snapshot
    /\ UNCHANGED <<streams, stopCh, sweeper, calls, pkt, ret, chain,
                   completed>>
    /\ UNCHANGED storeVars
    /\ UNCHANGED auxVars

Next ==
    \/ \E p \in Packets : ProcessPacket(p)
    \/ cleanupExpiredStreams
    \/ cleanupLoopExit
    \/ Stop
    \/ Tick

Spec == Init /\ [][Next]_vars

\* The sweep's progress is checked on a smaller set of packets: segments
\* that leave a buffer in either flow, one that touches a buffer again and one
\* that completes it.  The clock and the ticker-driven sweep are weakly fair:
\* time passes, and cleanupLoop serves a pending tick unless it has returned.
SweepPackets ==
    { TCPPacket(Client, Server, 50000, 443, <<65535, 65533>>, HelloA),
      TCPPacket(Client, Server, 50000, 443, U32(0), HelloB),
      TCPPacket(Client, Server, 50000, 443, U32(0), GetLine),
      TCPPacket(Server, Client, 443, 50000, U32(0), HelloA) }

FairNext ==
    \/ \E p \in SweepPackets : ProcessPacket(p)
    \/ cleanupExpiredStreams
    \/ cleanupLoopExit
    \/ Stop
    \/ Tick

FairSpec ==
    /\ Init
    /\ [][FairNext]_vars
    /\ WF_vars(Tick)
    /\ WF_vars(cleanupExpiredStreams)

\* DataStore.Store: one call, under ds.mutex from its first map access to
\* its return.
Store(i) ==
    /\ Len(stored) < MaxStores
    /\ op' = "Store"
    /\ info' = i
    /\ stored' = Append(stored, i)
    /\ dsBefore' = [stats |-> stats, dnsCache |-> dnsCache]
    /\ LET r == StoreOn([stats |-> stats, dnsCache |-> dnsCache], i)
       IN  /\ stats' = r.stats
           /\ dnsCache' = r.dnsCache
    /\ UNCHANGED <<streams, stopCh, sweeper, ticker, now, calls, pkt, ret,
                   before, chain, completed>>
    /\ UNCHANGED auxVars

\* The aggregation store on its own: a fresh DataStore and the packets the
\* capture loop hands to it.
StoreNext == \E i \in PacketInfos : Store(i)

StoreSpec == Init /\ [][StoreNext]_vars

\* ---- the aggregation store shared by a writer and a reader ----
srVars == <<streams, stopCh, sweeper, ticker, now, calls, pkt, ret, before,
            chain, completed>>

\* Store is entered: a packet without a remote IP returns at once, any other
\* goes on to ds.mutex.Lock().
StoreEnter(i) ==
    /\ storePc = "idle"
    /\ Len(stored) < MaxStores
    /\ info' = i
    /\ dsBefore' = [stats |-> stats, dnsCache |-> dnsCache]
    /\ IF NoRemoteIP(i)
       THEN /\ op' = "Store"
            /\ stored' = Append(stored, i)
            /\ UNCHANGED storePc
       ELSE /\ op' = "StoreEnter"
            /\ storePc' = "lock"
            /\ UNCHANGED stored
    /\ UNCHANGED <<stats, dnsCache, dsMutex, readPc, snapshot, seen>>
    /\ UNCHANGED <<srVars, sniVars, parseVars, mainVars>>

\* ds.mutex.Lock()
StoreLock ==
    /\ storePc = "lock"
    /\ CanLock(dsMutex)
    /\ dsMutex' = [dsMutex EXCEPT !.writer = "Store"]
    /\ storePc' = "stats"
    /\ op' = "StoreLock"
    /\ UNCHANGED <<stats, dnsCache, info, stored, dsBefore, readPc, snapshot,
                   seen>>
    /\ UNCHANGED <<srVars, sniVars, parseVars, mainVars>>

\* Lines 68-146, under the lock.
StoreStats ==
    /\ storePc = "stats"
    /\ LET r == StoreStatsOn([stats |-> stats, dnsCache |-> dnsCache], info)
       IN  stats' = r.stats /\ dnsCache' = r.dnsCache
    /\ storePc' = "dns"
    /\ op' = "StoreStats"
    /\ UNCHANGED <<info, stored, dsBefore, dsMutex, readPc, snapshot, seen>>
    /\ UNCHANGED <<srVars, sniVars, parseVars, mainVars>>

\* Lines 149-175, under the lock.
StoreDNS ==
    /\ storePc = "dns"
    /\ LET r == StoreDNSOn([stats |-> stats, dnsCache |-> dnsCache], info)
       IN  stats' = r.stats /\ dnsCache' = r.dnsCache
    /\ storePc' = "unlock"
    /\ op' = "StoreDNS"
    /\ UNCHANGED <<info, stored, dsBefore, dsMutex, readPc, snapshot, seen>>
    /\ UNCHANGED <<srVars, sniVars, parseVars, mainVars>>

\* The deferred ds.mutex.Unlock(); Store returns.
StoreUnlock ==
    /\ storePc = "unlock"
    /\ dsMutex' = [dsMutex EXCEPT !.writer = ""]
    /\ storePc' = "idle"
    /\ stored' = Append(stored, info)
    /\ op' = "Store"
    /\ UNCHANGED <<stats, dnsCache, info, dsBefore, readPc, snapshot, seen>>
    /\ UNCHANGED <<srVars, sniVars, parseVars, mainVars>>

\* GetStats: ds.mutex.RLock()
GetStatsRLock ==
    /\ readPc = "idle"
    /\ CanRLock(dsMutex)
    /\ dsMutex' = [dsMutex EXCEPT !.readers = @ \cup {"GetStats"}]
    /\ readPc' = "copy"
    /\ op' = "GetStatsRLock"
    /\ UNCHANGED <<stats, dnsCache, info, stored, dsBefore, storePc, snapshot,
                   seen>>
    /\ UNCHANGED <<srVars, sniVars, parseVars, mainVars>>

\* GetStats: the copy loop over ds.stats.
GetStatsCopy ==
    /\ readPc = "copy"
    /\ snapshot' = GetStats(stats)
    /\ seen' = [stats |-> stats, stored |-> stored]
    /\ readPc' = "unlock"
    /\ op' = "GetStatsCopy"
    /\ UNCHANGED <<stats, dnsCache, info, stored, dsBefore, dsMutex, storePc>>
    /\ UNCHANGED <<srVars, sniVars, parseVars, mainVars>>

\* GetStats: the deferred ds.mutex.RUnlock(); the map is returned.
GetStatsRUnlock ==
    /\ readPc = "unlock"
    /\ dsMutex' = [dsMutex EXCEPT !.readers = @ \ {"GetStats"}]
    /\ readPc' = "idle"
    /\ op' = "GetStats"
    /\ UNCHANGED <<stats, dnsCache, info, stored, dsBefore, storePc, snapshot,
                   seen>>
    /\ UNCHANGED <<srVars, sniVars, parseVars, mainVars>>

\* The packets of the shared store's writer.
ReadInfos ==
    { i \in PacketInfos :
        /\ i.Timestamp = 1
        /\ i.Length \in {100, 40, 90, 120} }

ReadNext ==
    \/ \E i \in ReadInfos : StoreEnter(i)
    \/ StoreLock
    \/ StoreStats
    \/ StoreDNS
    \/ StoreUnlock
    \/ GetStatsRLock
    \/ GetStatsCopy
    \/ GetStatsRUnlock

ReadSpec == Init /\ [][ReadNext]_vars

\* ---- extractSNI applied to a payload ----
ExtractSNI(c) ==
    /\ sniCase.kind = "none"
    /\ sniCase' = c
    /\ sniOut' = extractSNI(c.payload)
    /\ op' = "extractSNI"
    /\ UNCHANGED <<srVars, storeVars, readVars, parseVars, mainVars>>

SNINext == \E c \in SNICases : ExtractSNI(c)

SNISpec == Init /\ [][SNINext]_vars

\* ---- Parse ----
\* Parse: ProcessPacket, nil while the stream is not ready, otherwise the
\* PacketInfo built from the layers, the payload and the direction.
Parse(p) ==
    /\ calls < MaxCalls
    /\ calls' = calls + 1
    /\ op' = "Parse"
    /\ pkt' = p
    /\ before' = Snapshot
    /\ LET r == ProcessPacketOn(streams, p, now)
       IN  /\ streams' = r.streams
           /\ ret' = r.ret
           /\ parsed' = IF r.ret.ready THEN ParseReady(p, r.ret) ELSE NilInfo
    /\ UNCHANGED <<stopCh, sweeper, ticker, now, chain, completed>>
    /\ UNCHANGED <<storeVars, readVars, sniVars, mainVars>>

ParseNext == \E p \in ParsePackets : Parse(p)

ParseSpec == Init /\ [][ParseNext]_vars

DirectionNext == \E p \in DirectionPackets : Parse(p)

DirectionSpec == Init /\ [][DirectionNext]_vars

\* ---- the capture program: main and its two background goroutines ----
\* sync.RWMutex operations on a mutex record.
Lock(m, who) == [m EXCEPT !.writer = who]
Unlock(m) == [m EXCEPT !.writer = ""]
RLock(m, who) == [m EXCEPT !.readers = @ \cup {who}]

\* Variant: the read lock is kept.
RUnlockKept(m, who) == m

RUnlock(m, who) == [m EXCEPT !.readers = @ \ {who}]

\* What the operating system reports: the owner of each local endpoint and
\* the name of each process.
OSTcpTable == [k \in {<<Client, 50000>>} |-> 7]
OSUdpTable == [k \in {<<Client, 50000>>} |-> 9]
\* The tables at two moments: before the client's sockets exist, and after.
OSTables ==
    { [tcp |-> <<>>, udp |-> <<>>], [tcp |-> OSTcpTable, udp |-> OSUdpTable] }

OSProcessName == [p \in {7, 9} |-> IF p = 7 THEN "browser.exe" ELSE "updater.exe"]

\* The -exclude list of this run; -include and -service are not given.
excludeList == {"browser.exe"}

\* The packet has an IPv4 layer and a TCP or UDP layer.
HasLayers(p) ==
    /\ p.hasNet
    /\ \E a \in AddressTable : a[1] = p.src
    /\ p.transport \in {"TCP", "UDP"}

\* The pid owning the packet's source endpoint, else its destination
\* endpoint, else 0.
LookupPID(m, p) ==
    LET table  == IF IsTCP(p) THEN m.tcpMap ELSE m.udpMap
        srcKey == <<p.src, p.srcPort>>
        dstKey == <<p.dst, p.dstPort>>
    IN  IF srcKey \in DOMAIN table THEN table[srcKey]
        ELSE IF dstKey \in DOMAIN table THEN table[dstKey]
        ELSE 0

\* Variant: no name is made up for a pid whose name is unknown.
PIDStringEmpty(p) == ""

\* fmt.Sprintf("PID:%d", pid)
PIDString(p) == "PID:" \o ToString(p)

Attributed(i, name, p) == [i EXCEPT !.ProcessName = name, !.ProcessPID = p]

\* servicePID is 0 and includeList is empty: only excludeList decides.
shouldDisplay(i) == i.ProcessName \notin excludeList

\* Where main goes once the packet is attributed: to Store or to the next
\* packet.
AfterFilter(i) == IF shouldDisplay(i) THEN "Store" ELSE "select"

\* A write through the pointer is a write to the map's object while the
\* map still holds it.
WriteThrough(m, c) == IF c.attached THEN MapPut(m, c.key, c.obj) ELSE m

\* Packets of the capture: the header of a TLS record with a body of 2
\* bytes, a segment with half of the body and one with all of it, a
\* one-segment reply, a DNS response, and a frame without IP layer.
SegA == FromBytes(<<22, 3, 3, 0, 2>>)
SegB == FromBytes(<<1>>)
SegC == FromBytes(<<1, 2>>)

MainPackets ==
    { TCPDecoded(Client, Server, 50000, 443, U32(0), SegA),
      TCPDecoded(Client, Server, 50000, 443, U32(5), SegB),
      TCPDecoded(Client, Server, 50000, 443, U32(5), SegC),
      TCPDecoded(Client, Server, 50000, 443, U32(5), <<>>),
      TCPDecoded(Server, Client, 443, 50000, U32(0), GetLine),
      UDPDecoded("8.8.8.8", Client, 53, 50000, DNSBytes, <<>>, TRUE,
                 DNSLayer(TRUE, <<"bad.example">>, AnswersMixed)),
      ARPDecoded }

\* What is noted when ProcessPacket returns for packet p with result r:
\* whether the segment was put into the flow's buffer, and whether flow map
\* m, the map at the return, holds a buffer for the flow.
Returned(p, r, accepted, m) ==
    [Timestamp |-> p.Timestamp, Length |-> p.Length, ready |-> r.ready,
     tcp |-> IsTCP(p), payload |-> len(p.payload), data |-> len(r.data),
     accepted |-> accepted, held |-> r.flowKey \in DOMAIN m]

\* Variables no step of the capture program changes.
mainOther == <<ticker, before, chain, completed, readVars, sniVars>>

\* pm.Start(): the first updateConnectionTable fails or succeeds; on success
\* running is set and the refresh goroutine is started.  No other goroutine
\* uses pm yet.
pmStart(ok) ==
    /\ mainPc = "Start"
    /\ IF ok
       THEN /\ \E t \in OSTables :
                  pm' = [pm EXCEPT !.tcpMap = t.tcp, !.udpMap = t.udp,
                                   !.running = TRUE]
            /\ refresher' = "running"
       ELSE UNCHANGED <<pm, refresher>>
    /\ mainPc' = "select"
    /\ op' = "main"
    /\ UNCHANGED <<streams, stopCh, sweeper, now, calls, pkt, ret, stats,
                   dnsCache, info, stored, dsBefore, parsed, mu, cur, pid,
                   captured>>
    /\ UNCHANGED mainOther

\* case <-sigChan: the shutdown branch is taken; PrintStats is next.
Signal ==
    /\ mainPc = "select"
    /\ mainPc' = "PrintStats"
    /\ op' = "main"
    /\ UNCHANGED <<streams, stopCh, sweeper, now, calls, pkt, ret, stats,
                   dnsCache, info, stored, dsBefore, parsed, mu, cur, pm,
                   refresher, pid, captured>>
    /\ UNCHANGED mainOther

\* case packet := <-packetChan: the packet's capture time is its place in
\* the capture.  Parse calls ProcessPacket, which returns without the lock
\* for a packet that is not TCP or has no payload.
TakePacket(p) ==
    /\ mainPc = "select"
    /\ calls < MaxPackets
    /\ calls' = calls + 1
    /\ op' = "main"
    /\ LET q == [p EXCEPT !.Timestamp = calls + 1]
       IN  /\ pkt' = q
           /\ IF IsTCP(q) /\ ~EmptyPayload(q)
              THEN /\ mainPc' = "sr.Lock"
                   /\ UNCHANGED <<ret, parsed, captured>>
              ELSE LET r == ProcessPacketOn(streams, q, now).ret
                   IN  /\ ret' = r
                       /\ captured' =
                              Append(captured, Returned(q, r, FALSE, streams))
                       /\ parsed' = IF r.ready THEN ParseReady(q, r)
                                    ELSE NilInfo
                       /\ mainPc' = IF r.ready THEN "IsRunning" ELSE "select"
    /\ UNCHANGED <<streams, stopCh, sweeper, now, stats, dnsCache, info,
                   stored, dsBefore, mu, cur, pm, refresher, pid>>
    /\ UNCHANGED mainOther

\* sr.mutex.Lock() of line 120.
ppLock ==
    /\ mainPc = "sr.Lock"
    /\ CanLock(mu.sr)
    /\ mu' = [mu EXCEPT !.sr = Lock(@, "main")]
    /\ mainPc' = "lookup"
    /\ op' = "main"
    /\ UNCHANGED <<streams, stopCh, sweeper, now, calls, pkt, ret, stats,
                   dnsCache, info, stored, dsBefore, parsed, cur, pm,
                   refresher, pid, captured>>
    /\ UNCHANGED mainOther

\* Lines 121-130: get or create the flow's buffer, Unlock.
ppLookup ==
    /\ mainPc = "lookup"
    /\ LET flowKey == PacketFlowKey(pkt)
           exists  == flowKey \in DOMAIN streams
           stream  == IF exists THEN streams[flowKey] ELSE NewStreamBuffer(now)
       IN  /\ streams' = MapPut(streams, flowKey, stream)
           /\ cur' = [key |-> flowKey, obj |-> stream, attached |-> TRUE,
                      oldLA |-> stream.LastActivity]
    /\ mu' = [mu EXCEPT !.sr = Unlock(@)]
    /\ mainPc' = "touch"
    /\ op' = "main"
    /\ UNCHANGED <<stopCh, sweeper, now, calls, pkt, ret, stats, dnsCache,
                   info, stored, dsBefore, parsed, pm, refresher, pid,
                   captured>>
    /\ UNCHANGED mainOther

\* Line 133: stream.LastActivity = time.Now().
ppTouch ==
    /\ mainPc = "touch"
    /\ LET c == [cur EXCEPT !.obj.LastActivity = now]
       IN  /\ cur' = c
           /\ streams' = WriteThrough(streams, c)
    /\ mainPc' = "update"
    /\ op' = "main"
    /\ UNCHANGED <<stopCh, sweeper, now, calls, pkt, ret, stats, dnsCache,
                   info, stored, dsBefore, parsed, mu, pm, refresher, pid,
                   captured>>
    /\ UNCHANGED mainOther

\* Lines 136-164: the buffer and NextSeq are updated and the buffer is
\* peeked; an incomplete buffer makes ProcessPacket and Parse return.
ppUpdate ==
    /\ mainPc = "update"
    /\ LET s    == UpdateStream(cur.obj, pkt.seq, pkt.payload,
                                cur.obj.LastActivity)
           c    == [cur EXCEPT !.obj = s]
           peek == peekTLSRecord(s.Buffer)
           m    == WriteThrough(streams, c)
           r    == Result(Nil, FALSE, cur.key)
       IN  /\ streams' = m
           /\ IF peek.ready
              THEN /\ cur' = c
                   /\ ret' = Result(peek.data, TRUE, cur.key)
                   /\ mainPc' = "sr.Lock2"
                   /\ UNCHANGED <<parsed, captured>>
              ELSE /\ cur' = NoStream
                   /\ ret' = r
                   /\ captured' =
                          Append(captured, Returned(pkt, r, s # cur.obj, m))
                   /\ parsed' = NilInfo
                   /\ mainPc' = "select"
    /\ op' = "main"
    /\ UNCHANGED <<stopCh, sweeper, now, calls, pkt, stats, dnsCache, info,
                   stored, dsBefore, mu, pm, refresher, pid>>
    /\ UNCHANGED mainOther

\* sr.mutex.Lock() of line 168.
ppLock2 ==
    /\ mainPc = "sr.Lock2"
    /\ CanLock(mu.sr)
    /\ mu' = [mu EXCEPT !.sr = Lock(@, "main")]
    /\ mainPc' = "delete"
    /\ op' = "main"
    /\ UNCHANGED <<streams, stopCh, sweeper, now, calls, pkt, ret, stats,
                   dnsCache, info, stored, dsBefore, parsed, cur, pm,
                   refresher, pid, captured>>
    /\ UNCHANGED mainOther

\* Lines 169-171: delete, Unlock, return; Parse decodes the unit.
ppDelete ==
    /\ mainPc = "delete"
    /\ streams' = MapDelete(streams, cur.key)
    /\ captured' = Append(captured, Returned(pkt, ret, TRUE,
                                              MapDelete(streams, cur.key)))
    /\ mu' = [mu EXCEPT !.sr = Unlock(@)]
    /\ cur' = NoStream
    /\ parsed' = ParseReady(pkt, ret)
    /\ mainPc' = "IsRunning"
    /\ op' = "main"
    /\ UNCHANGED <<stopCh, sweeper, now, calls, pkt, ret, stats, dnsCache,
                   info, stored, dsBefore, pm, refresher, pid>>
    /\ UNCHANGED mainOther

\* if pm.IsRunning(): GetProcessInfoForPacket returns "", 0 before the lock
\* for a packet without IPv4 or transport layer.
IsRunning ==
    /\ mainPc = "IsRunning"
    /\ mainPc' = IF pm.running /\ HasLayers(pkt) THEN "pm.RLock"
                 ELSE AfterFilter(parsed)
    /\ op' = "main"
    /\ UNCHANGED <<streams, stopCh, sweeper, now, calls, pkt, ret, stats,
                   dnsCache, info, stored, dsBefore, parsed, mu, cur, pm,
                   refresher, pid, captured>>
    /\ UNCHANGED mainOther

\* pm.mutex.RLock() of line 55.
pmRLock ==
    /\ mainPc = "pm.RLock"
    /\ CanRLock(mu.pm)
    /\ mu' = [mu EXCEPT !.pm = RLock(@, "main")]
    /\ mainPc' = "pm.lookup"
    /\ op' = "main"
    /\ UNCHANGED <<streams, stopCh, sweeper, now, calls, pkt, ret, stats,
                   dnsCache, info, stored, dsBefore, parsed, cur, pm,
                   refresher, pid, captured>>
    /\ UNCHANGED mainOther

\* Lines 56-81: the pid and the cached name are looked up; RUnlock on each
\* of the three ways out.
pmLookup ==
    /\ mainPc = "pm.lookup"
    /\ mu' = [mu EXCEPT !.pm = RUnlock(@, "main")]
    /\ op' = "main"
    /\ LET p == LookupPID(pm, pkt)
       IN  IF p = 0
           THEN /\ parsed' = Attributed(parsed, "", 0)
                /\ mainPc' = AfterFilter(parsed)
                /\ UNCHANGED pid
           ELSE IF p \in DOMAIN pm.processName
           THEN LET i == Attributed(parsed, pm.processName[p], p)
                IN  /\ parsed' = i
                    /\ mainPc' = AfterFilter(i)
                    /\ UNCHANGED pid
           ELSE /\ pid' = p
                /\ mainPc' = "getProcessName"
                /\ UNCHANGED parsed
    /\ UNCHANGED <<streams, stopCh, sweeper, now, calls, pkt, ret, stats,
                   dnsCache, info, stored, dsBefore, cur, pm, refresher,
                   captured>>
    /\ UNCHANGED mainOther

\* Line 84: the operating system gives the name, or the query fails and
\* "PID:n" is returned.
getProcessName ==
    /\ mainPc = "getProcessName"
    /\ op' = "main"
    /\ \E name \in {OSProcessName[pid], ""} :
          IF name # ""
          THEN /\ mainPc' = "pm.Lock"
               /\ UNCHANGED parsed
          ELSE LET i == Attributed(parsed, PIDString(pid), pid)
               IN  /\ parsed' = i
                   /\ mainPc' = AfterFilter(i)
    /\ UNCHANGED <<streams, stopCh, sweeper, now, calls, pkt, ret, stats,
                   dnsCache, info, stored, dsBefore, mu, cur, pm, refresher,
                   pid, captured>>
    /\ UNCHANGED mainOther

\* pm.mutex.Lock() of line 87.
pmLock ==
    /\ mainPc = "pm.Lock"
    /\ CanLock(mu.pm)
    /\ mu' = [mu EXCEPT !.pm = Lock(@, "main")]
    /\ mainPc' = "pm.cache"
    /\ op' = "main"
    /\ UNCHANGED <<streams, stopCh, sweeper, now, calls, pkt, ret, stats,
                   dnsCache, info, stored, dsBefore, parsed, cur, pm,
                   refresher, pid, captured>>
    /\ UNCHANGED mainOther

\* Lines 88-90: the name is cached, Unlock, return.
pmCache ==
    /\ mainPc = "pm.cache"
    /\ pm' = [pm EXCEPT !.processName = MapPut(@, pid, OSProcessName[pid])]
    /\ mu' = [mu EXCEPT !.pm = Unlock(@)]
    /\ LET i == Attributed(parsed, OSProcessName[pid], pid)
       IN  /\ parsed' = i
           /\ mainPc' = AfterFilter(i)
    /\ op' = "main"
    /\ UNCHANGED <<streams, stopCh, sweeper, now, calls, pkt, ret, stats,
                   dnsCache, info, stored, dsBefore, cur, refresher, pid,
                   captured>>
    /\ UNCHANGED mainOther

\* dataStore.Store(packetInfo): a packet without remote IP returns before
\* the lock.
storeEnter ==
    /\ mainPc = "Store"
    /\ op' = "main"
    /\ IF NoRemoteIP(parsed)
       THEN /\ mainPc' = "select"
            /\ info' = parsed
            /\ stored' = Append(stored, parsed)
            /\ dsBefore' = [stats |-> stats, dnsCache |-> dnsCache]
       ELSE /\ mainPc' = "ds.Lock"
            /\ UNCHANGED <<info, stored, dsBefore>>
    /\ UNCHANGED <<streams, stopCh, sweeper, now, calls, pkt, ret, stats,
                   dnsCache, parsed, mu, cur, pm, refresher, pid, captured>>
    /\ UNCHANGED mainOther

\* ds.mutex.Lock()
dsLock ==
    /\ mainPc = "ds.Lock"
    /\ CanLock(mu.ds)
    /\ mu' = [mu EXCEPT !.ds = Lock(@, "main")]
    /\ mainPc' = "ds.body"
    /\ op' = "main"
    /\ UNCHANGED <<streams, stopCh, sweeper, now, calls, pkt, ret, stats,
                   dnsCache, info, stored, dsBefore, parsed, cur, pm,
                   refresher, pid, captured>>
    /\ UNCHANGED mainOther

\* The body of Store and its deferred Unlock; PrintPacket and the pcap
\* writer touch no shared state.
dsStore ==
    /\ mainPc = "ds.body"
    /\ LET r == StoreOn([stats |-> stats, dnsCache |-> dnsCache], parsed)
       IN  /\ stats' = r.stats
           /\ dnsCache' = r.dnsCache
    /\ info' = parsed
    /\ stored' = Append(stored, parsed)
    /\ dsBefore' = [stats |-> stats, dnsCache |-> dnsCache]
    /\ mu' = [mu EXCEPT !.ds = Unlock(@)]
    /\ mainPc' = "select"
    /\ op' = "main"
    /\ UNCHANGED <<streams, stopCh, sweeper, now, calls, pkt, ret, parsed,
                   cur, pm, refresher, pid, captured>>
    /\ UNCHANGED mainOther

\* PrintStats and SaveToJSON each call dataStore.GetStats(): RLock.
exportRLock(f) ==
    /\ mainPc = f
    /\ CanRLock(mu.ds)
    /\ mu' = [mu EXCEPT !.ds = RLock(@, "main")]
    /\ mainPc' = IF f = "PrintStats" THEN "PrintStats.copy"
                 ELSE "SaveToJSON.copy"
    /\ op' = "main"
    /\ UNCHANGED <<streams, stopCh, sweeper, now, calls, pkt, ret, stats,
                   dnsCache, info, stored, dsBefore, parsed, cur, pm,
                   refresher, pid, captured>>
    /\ UNCHANGED mainOther

\* The copy and the deferred RUnlock; the export then reads through the
\* pointers it got.
exportRUnlock(f) ==
    /\ mainPc = f
    /\ mu' = [mu EXCEPT !.ds = RUnlock(@, "main")]
    /\ mainPc' = IF f = "PrintStats.copy" THEN "SaveToJSON" ELSE "return"
    /\ op' = "main"
    /\ UNCHANGED <<streams, stopCh, sweeper, now, calls, pkt, ret, stats,
                   dnsCache, info, stored, dsBefore, parsed, cur, pm,
                   refresher, pid, captured>>
    /\ UNCHANGED mainOther

\* return: the deferred pm.Stop() runs first.
pmStop ==
    /\ mainPc = "return"
    /\ pm' = IF pm.running
             THEN [pm EXCEPT !.running = FALSE, !.stopChan = TRUE]
             ELSE pm
    /\ mainPc' = "parser.Stop"
    /\ op' = "main"
    /\ UNCHANGED <<streams, stopCh, sweeper, now, calls, pkt, ret, stats,
                   dnsCache, info, stored, dsBefore, parsed, mu, cur,
                   refresher, pid, captured>>
    /\ UNCHANGED mainOther

\* The deferred parser.Stop(): close(sr.stopCh); main has returned.
parserStop ==
    /\ mainPc = "parser.Stop"
    /\ stopCh' = TRUE
    /\ mainPc' = "returned"
    /\ op' = "main"
    /\ UNCHANGED <<streams, sweeper, now, calls, pkt, ret, stats, dnsCache,
                   info, stored, dsBefore, parsed, mu, cur, pm, refresher,
                   pid, captured>>
    /\ UNCHANGED mainOther

\* cleanupLoop: a tick arrives; cleanupExpiredStreams takes the lock.
sweepLock ==
    /\ sweeper = "running"
    /\ CanLock(mu.sr)
    /\ mu' = [mu EXCEPT !.sr = Lock(@, "sweeper")]
    /\ sweeper' = "sweeping"
    /\ op' = "main"
    /\ UNCHANGED <<streams, stopCh, now, calls, pkt, ret, stats, dnsCache,
                   info, stored, dsBefore, parsed, mainPc, cur, pm,
                   refresher, pid, captured>>
    /\ UNCHANGED mainOther

\* main has written through its pointer without the lock and has not taken
\* the lock since: the sweep may read the LastActivity of before the write.
Unsynchronised == mainPc \in {"update", "sr.Lock2"} /\ cur.attached

\* Lines 75-80 and the deferred Unlock: every expired buffer is deleted.
sweepScan ==
    /\ sweeper = "sweeping"
    /\ \E la \in IF Unsynchronised THEN {cur.obj.LastActivity, cur.oldLA}
                 ELSE {0} :
          LET read(k) == IF Unsynchronised /\ k = cur.key
                         THEN [streams[k] EXCEPT !.LastActivity = la]
                         ELSE streams[k]
              keep    == {k \in DOMAIN streams : ~Expired(read(k), now)}
          IN  /\ streams' = [k \in keep |-> streams[k]]
              /\ cur' = IF cur.attached /\ cur.key \notin keep
                        THEN [cur EXCEPT !.attached = FALSE]
                        ELSE cur
    /\ mu' = [mu EXCEPT !.sr = Unlock(@)]
    /\ sweeper' = "running"
    /\ op' = "main"
    /\ UNCHANGED <<stopCh, now, calls, pkt, ret, stats, dnsCache, info,
                   stored, dsBefore, parsed, mainPc, pm, refresher, pid,
                   captured>>
    /\ UNCHANGED mainOther

\* cleanupLoop reads the closed stopCh and returns.
sweeperExit ==
    /\ sweeper = "running"
    /\ stopCh
    /\ sweeper' = "exited"
    /\ op' = "main"
    /\ UNCHANGED <<streams, stopCh, now, calls, pkt, ret, stats, dnsCache,
                   info, stored, dsBefore, parsed, mainPc, mu, cur, pm,
                   refresher, pid, captured>>
    /\ UNCHANGED mainOther

\* The refresh goroutine: a tick arrives; updateConnectionTable takes the
\* lock.
refreshLock ==
    /\ refresher = "running"
    /\ CanLock(mu.pm)
    /\ mu' = [mu EXCEPT !.pm = Lock(@, "refresher")]
    /\ refresher' = "refreshing"
    /\ op' = "main"
    /\ UNCHANGED <<streams, stopCh, sweeper, now, calls, pkt, ret, stats,
                   dnsCache, info, stored, dsBefore, parsed, mainPc, cur, pm,
                   pid, captured>>
    /\ UNCHANGED mainOther

\* The tables are rebuilt from the operating system's; deferred Unlock.
refreshTables ==
    /\ refresher = "refreshing"
    /\ \E t \in OSTables :
          pm' = [pm EXCEPT !.tcpMap = t.tcp, !.udpMap = t.udp]
    /\ mu' = [mu EXCEPT !.pm = Unlock(@)]
    /\ refresher' = "running"
    /\ op' = "main"
    /\ UNCHANGED <<streams, stopCh, sweeper, now, calls, pkt, ret, stats,
                   dnsCache, info, stored, dsBefore, parsed, mainPc, cur,
                   pid, captured>>
    /\ UNCHANGED mainOther

\* The refresh goroutine reads the closed stopChan and returns.
refresherExit ==
    /\ refresher = "running"
    /\ pm.stopChan
    /\ refresher' = "exited"
    /\ op' = "main"
    /\ UNCHANGED <<streams, stopCh, sweeper, now, calls, pkt, ret, stats,
                   dnsCache, info, stored, dsBefore, parsed, mainPc, mu, cur,
                   pm, pid, captured>>
    /\ UNCHANGED mainOther

\* Time passes: long enough for an untouched buffer to expire.
MainTick ==
    /\ now + StreamTimeout + 1 <= MaxTime
    /\ now' = now + StreamTimeout + 1
    /\ op' = "main"
    /\ UNCHANGED <<streams, stopCh, sweeper, calls, pkt, ret, stats,
                   dnsCache, info, stored, dsBefore, parsed, mainPc, mu, cur,
                   pm, refresher, pid, captured>>
    /\ UNCHANGED mainOther

MainNext ==
    \/ \E ok \in BOOLEAN : pmStart(ok)
    \/ Signal
    \/ \E p \in MainPackets : TakePacket(p)
    \/ ppLock
    \/ ppLookup
    \/ ppTouch
    \/ ppUpdate
    \/ ppLock2
    \/ ppDelete
    \/ IsRunning
    \/ pmRLock
    \/ pmLookup
    \/ getProcessName
    \/ pmLock
    \/ pmCache
    \/ storeEnter
    \/ dsLock
    \/ dsStore
    \/ \E f \in {"PrintStats", "SaveToJSON"} : exportRLock(f)
    \/ \E f \in {"PrintStats.copy", "SaveToJSON.copy"} : exportRUnlock(f)
    \/ pmStop
    \/ parserStop
    \/ sweepLock
    \/ sweepScan
    \/ sweeperExit
    \/ refreshLock
    \/ refreshTables
    \/ refresherExit
    \/ MainTick

MainSpec == Init /\ [][MainNext]_vars

TypeOK ==
    /\ now \in 0..MaxTime
    /\ calls \in 0..MaxCalls
    /\ \A k \in DOMAIN streams : streams[k].Initialized


\* ------------------------------------------------------------- properties
Called  == op = "ProcessPacket"
Segment == Called /\ pkt.transport = "TCP" /\ pkt.payload # <<>>
Flow    == FlowKeyOfSegment(pkt)
HadBuffer == Flow \in DOMAIN before.streams
OldBuffer == before.streams[Flow]

\* The unit a complete byte string b yields: all of it when it is not a TLS
\* record, its first 5 + L bytes when it is.
Unit(b) ==
    IF ByteAt(b, 0) # 22 THEN b ELSE SliceTo(b, RecordTotal(b))

\* The last call left b as the flow's buffer and ran the completion check on
\* it: a complete b was returned and its entry removed, an incomplete b is
\* held in the flow map.
BufferBecame(b) ==
    IF ChainDone(b)
    THEN ret.ready /\ ret.data = Unit(b) /\ Flow \notin DOMAIN streams
    ELSE /\ ~ret.ready /\ ret.data = <<>>
         /\ Flow \in DOMAIN streams
         /\ streams[Flow].Buffer = b

\* The last call was a payload segment continuing (or starting) an in-order
\* run of its flow whose concatenation begins with the TLS marker 0x16.
InOrderRun ==
    /\ Segment
    /\ Flow \in DOMAIN chain
    /\ ByteAt(chain[Flow].cat, 0) = 22

\* C1 (as stated): segments in sequence order whose concatenation begins
\* with a TLS record of total length 5 + L <= 65535: ready = FALSE while
\* fewer than 5 + L bytes have arrived, and ready = TRUE with exactly the
\* first 5 + L bytes on the segment that first reaches 5 + L bytes.
C1_RoundTripAsStated ==
    InOrderRun =>
        LET cat == chain[Flow].cat
        IN  IF len(cat) < 5 THEN ~ret.ready
            ELSE RecordTotal(cat) <= 65535 =>
                   IF len(cat) < RecordTotal(cat) THEN ~ret.ready
                   ELSE ret.ready /\ ret.data = SliceTo(cat, RecordTotal(cat))

\* C1 (amended): the same, provided the segments up to and including the
\* completing one total at most 65535 bytes; a completing segment that
\* takes the total past 65535 bytes resets the buffer to that segment alone.
C1_RoundTrip ==
    InOrderRun =>
        LET cat == chain[Flow].cat
        IN  IF len(cat) < 5 THEN ~ret.ready
            ELSE RecordTotal(cat) <= 65535 =>
                   IF len(cat) < RecordTotal(cat) THEN ~ret.ready
                   ELSE IF len(cat) <= 65535
                   THEN ret.ready /\ ret.data = SliceTo(cat, RecordTotal(cat))
                   ELSE BufferBecame(pkt.payload)

\* The 10 bytes 16 03 03 00 05 AA AA AA AA AA, sent as 3 + 4 + 3 bytes with
\* sequence numbers 2^32 - 3, 0 and 4, are returned by the third call.
C1_Witness ==
    /\ InOrderRun
    /\ pkt.payload = HelloC /\ pkt.seq = U32(4)
    /\ Flow \in DOMAIN before.chain
    /\ before.chain[Flow].cat = append(HelloA, HelloB)
    /\ ret.ready
    /\ ret.data = << <<22, 1>>, <<3, 2>>, <<0, 1>>, <<5, 1>>, <<170, 5>> >>
    /\ Flow \notin DOMAIN streams

\* C2: a payload segment with seq > nextSeq of the flow's live buffer
\* discards the buffered bytes: the buffer becomes exactly that segment's
\* payload, and the completion check sees only those bytes.
C2_GapReset ==
    (Segment /\ HadBuffer /\ U32Greater(pkt.seq, OldBuffer.NextSeq))
        => BufferBecame(pkt.payload)

C2_Witness ==
    /\ Segment /\ HadBuffer /\ U32Greater(pkt.seq, OldBuffer.NextSeq)
    /\ OldBuffer.Buffer = HelloA
    /\ pkt.payload = HelloC
    /\ ~ret.ready
    /\ streams[Flow].Buffer = HelloC

\* C3: an in-order segment that would make the buffer longer than 65535
\* bytes resets the buffer to that segment's payload, one that makes it
\* exactly 65535 bytes or less is appended, and no buffer in the flow map is
\* ever longer than 65535 bytes.
C3_OverflowReset ==
    /\ (Segment /\ HadBuffer /\ pkt.seq = OldBuffer.NextSeq) =>
          IF len(OldBuffer.Buffer) + len(pkt.payload) > 65535
          THEN BufferBecame(pkt.payload)
          ELSE BufferBecame(append(OldBuffer.Buffer, pkt.payload))
    /\ \A k \in DOMAIN streams : len(streams[k].Buffer) <= 65535

\* A 3-byte segment arrives in order on a buffer of 65534 bytes.
C3_Witness ==
    /\ Segment /\ HadBuffer /\ pkt.seq = OldBuffer.NextSeq
    /\ len(OldBuffer.Buffer) = 65534
    /\ pkt.payload = HelloC
    /\ Flow \in DOMAIN streams
    /\ streams[Flow].Buffer = HelloC

Mutated ==
    UpdateStream(IF HadBuffer THEN OldBuffer ELSE NewStreamBuffer(now),
                 pkt.seq, pkt.payload, now).Buffer

C6_NoPartialRecord ==
    (Called /\ pkt.transport = "TCP" /\ ret.ready /\ ByteAt(ret.data, 0) = 22)
        => (len(ret.data) >= 5 /\ len(ret.data) = RecordTotal(ret.data))

\* The completing segment carries one byte more than the record needs.
C6_Witness ==
    /\ Segment /\ HadBuffer
    /\ OldBuffer.Buffer = append(HelloA, HelloB)
    /\ pkt.payload = HelloCx
    /\ ret.ready
    /\ len(ret.data) = 10

\* C7: after a call that returns ready = TRUE for a TCP flow the flow has no
\* entry in the flow map, and the next payload segment of that flow is
\* treated as a first segment: any sequence number is accepted and the
\* buffer is that segment's payload only.
C7_CompletionDestroysBuffer ==
    /\ (Called /\ pkt.transport = "TCP" /\ ret.ready)
          => ret.flowKey \notin DOMAIN streams
    /\ (Segment /\ Flow \in before.completed) =>
          /\ ~HadBuffer
          /\ BufferBecame(pkt.payload)
          /\ ~ret.ready =>
                streams[Flow].NextSeq = U32Add(pkt.seq, len(pkt.payload))

\* After "GET /" at seq 0 completed, a segment at seq 4 starts a new buffer.
C7_Witness ==
    /\ Segment /\ Flow \in before.completed
    /\ pkt.seq = U32(4) /\ pkt.payload = HelloC
    /\ ~ret.ready
    /\ streams[Flow].Buffer = HelloC
    /\ streams[Flow].NextSeq = U32(7)

\* The flows of the packets the model submits.
Flows == { FlowKeyOfSegment(p) : p \in TCPPackets }

\* A sweep removes exactly the buffers idle for more than 3 seconds and
\* leaves every other buffer as it was.
SweepExact ==
    op = "cleanupExpiredStreams" =>
        \A k \in DOMAIN before.streams :
            IF now - before.streams[k].LastActivity > 3
            THEN k \notin DOMAIN streams
            ELSE k \in DOMAIN streams /\ streams[k] = before.streams[k]

IdleLongerThanTimeout(k) ==
    k \in DOMAIN streams /\ now - streams[k].LastActivity > 3

\* C8: while the sweep task runs, a buffer idle for more than 3 seconds is
\* eventually removed by the sweep (unless a packet touches it or the
\* reassembler is stopped first) without anything being returned for it, and
\* once packets cease the number of active streams eventually becomes zero;
\* a buffer idle for 3 seconds or less is not removed by the sweep.
C8_IdleEviction ==
    /\ []SweepExact
    /\ [][op' = "cleanupExpiredStreams" => ret' = ret]_vars
    /\ \A k \in Flows :
          IdleLongerThanTimeout(k) ~> (~IdleLongerThanTimeout(k) \/ stopCh)
    /\ (DOMAIN streams # {}) ~> (DOMAIN streams = {} \/ stopCh)

\* A sweep has removed the last buffer; another buffer of age 3 had survived
\* an earlier sweep.
C8_Witness ==
    /\ op = "cleanupExpiredStreams"
    /\ DOMAIN before.streams # {}
    /\ DOMAIN streams = {}
    /\ ~stopCh

\* C9: a TCP packet with empty payload returns ready = FALSE with the
\* packet's flow key and leaves the flow map and every buffer unchanged.
C9_EmptyPayloadNoEffect ==
    (Called /\ pkt.transport = "TCP" /\ pkt.payload = <<>>) =>
        /\ ~ret.ready
        /\ ret.flowKey = FlowKeyOfSegment(pkt)
        /\ streams = before.streams

\* An empty-payload packet of a flow that has a buffer last touched earlier.
C9_Witness ==
    /\ Called /\ pkt.transport = "TCP" /\ pkt.payload = <<>>
    /\ FlowKeyOfSegment(pkt) \in DOMAIN streams
    /\ streams[FlowKeyOfSegment(pkt)].LastActivity < now
    /\ ret.flowKey.SrcPort = "50000" /\ ret.flowKey.DstPort = "443(https)"

\* C10: a non-TCP packet returns the empty flow key and leaves the flow map
\* unchanged; it returns ready = TRUE with the application payload when it
\* has an application layer and ready = FALSE otherwise.
C10_NonTCPPassThrough ==
    (Called /\ pkt.transport # "TCP") =>
        /\ ret.flowKey = EmptyFlowKey
        /\ streams = before.streams
        /\ pkt.hasApp => (ret.ready /\ ret.data = pkt.payload)
        /\ ~pkt.hasApp => (~ret.ready /\ ret.data = <<>>)

C10_Witness ==
    /\ Called /\ pkt.transport = "UDP" /\ pkt.hasApp
    /\ ret.ready /\ ret.data = OneByte
    /\ DOMAIN streams # {}

\* C11: flows are isolated.  A ProcessPacket call changes at most the entry
\* of its own packet's flow key: every other flow key, the reverse direction
\* of the same connection included, has a buffer after the call exactly when
\* it had one before, and that buffer is unchanged.  A call for a packet that
\* is not TCP changes no entry at all.
C11_FlowsIsolated ==
    Called =>
        /\ \A k \in DOMAIN before.streams \cup DOMAIN streams :
              \/ pkt.transport = "TCP" /\ k = Flow
              \/ /\ k \in DOMAIN before.streams
                 /\ k \in DOMAIN streams
                 /\ streams[k] = before.streams[k]
        /\ (pkt.transport = "TCP" /\ Reverse(Flow) \in DOMAIN before.streams)
              => /\ Reverse(Flow) # Flow
                 /\ Reverse(Flow) \in DOMAIN streams
                 /\ streams[Reverse(Flow)] = before.streams[Reverse(Flow)]

\* A segment changed the buffer of its flow while the reverse direction of
\* the connection held a buffer of its own.
C11_Witness ==
    /\ Segment
    /\ HadBuffer
    /\ Flow \in DOMAIN streams
    /\ streams[Flow] # OldBuffer
    /\ Reverse(Flow) \in DOMAIN streams
    /\ streams[Reverse(Flow)].Buffer # <<>>

\* seq + n modulo 2^32 for 0 <= n < 2^16, on the two 16-bit halves.
SeqAfter(seq, n) ==
    IF seq[2] + n < 65536 THEN <<seq[1], seq[2] + n>>
    ELSE IF seq[1] = 65535 THEN <<0, seq[2] + n - 65536>>
    ELSE <<seq[1] + 1, seq[2] + n - 65536>>

\* The last call was a segment below the expected sequence number of a
\* buffer that existed: the retransmission that is ignored.
IgnoredRetransmission ==
    Segment /\ HadBuffer /\ OldBuffer.Initialized
            /\ U32Less(pkt.seq, OldBuffer.NextSeq)

\* C12: sequence arithmetic is modulo 2^32.  After every payload segment that
\* is not an ignored retransmission and leaves the buffer live, the buffer's
\* nextSeq is (seq + len(payload)) mod 2^32; and a segment whose seq equals
\* the buffer's nextSeq is taken as the in-order continuation (appended, or
\* replacing the buffer when the sum would exceed MaxBufferSize), also when
\* nextSeq came from a sum that wrapped past 2^32.
C12_SeqModulo ==
    /\ (Segment /\ ~IgnoredRetransmission /\ Flow \in DOMAIN streams) =>
          streams[Flow].NextSeq = SeqAfter(pkt.seq, len(pkt.payload))
    /\ (Segment /\ HadBuffer /\ pkt.seq = OldBuffer.NextSeq) =>
          IF len(OldBuffer.Buffer) + len(pkt.payload) <= 65535
          THEN BufferBecame(append(OldBuffer.Buffer, pkt.payload))
          ELSE BufferBecame(pkt.payload)

\* A segment at sequence number 0 continued a buffer whose first segment
\* started 3 bytes below 2^32.
C12_Witness ==
    /\ Segment
    /\ HadBuffer
    /\ OldBuffer.Buffer = HelloA
    /\ OldBuffer.NextSeq = <<0, 0>>
    /\ pkt.seq = <<0, 0>>
    /\ Flow \in DOMAIN streams
    /\ streams[Flow].Buffer = append(HelloA, pkt.payload)
    /\ streams[Flow].NextSeq = <<0, len(pkt.payload)>>

\* ------------------------------------------------- properties of DataStore
Stored == op = "Store"

\* The packets Store was given with a remote IP, and those of one IP, in
\* call order.
Kept == SelectSeq(stored, LAMBDA i : i.RemoteIP # "")
PacketsOf(ip) == SelectSeq(stored, LAMBDA i : i.RemoteIP = ip)

RECURSIVE SumLengths(_)
SumLengths(q) == IF q = <<>> THEN 0 ELSE Head(q).Length + SumLengths(Tail(q))

\* How many packets of a sequence satisfy a test; how often an IP is listed.
HowMany(q, Test(_)) == Len(SelectSeq(q, Test))
Listed(ips, ip) == Len(SelectSeq(ips, LAMBDA x : x = ip))

\* A stored packet that is a DNS response naming ip as domain d.
Names(i, ip, d) ==
    /\ i.RemoteIP # ""
    /\ i.IsDNS
    /\ i.DNSQueryName = d
    /\ d # ""
    /\ Listed(i.DNSResponseIPs, ip) > 0

Domains == {"bad.example", "cdn.example"}

\* The last Store call created the RemoteIPStats of its packet's remote IP.
Creating ==
    Stored /\ info.RemoteIP # "" /\ info.RemoteIP \notin DOMAIN dsBefore.stats

\* C13: DNS correlation does not depend on the order of arrival.  When the
\* first packet with remote IP X is stored, every domain D that a DNS response
\* stored earlier resolved to X is in the DNS-name table of X's new
\* RemoteIPStats with count 1, however often that response was stored before
\* (a first packet that itself resolves D to X adds its own listings); D
\* stays in the table from then on; and storing a DNS response that was
\* stored before adds no entry to the DNS cache and no key to any DNS-name
\* table.
C13_DNSOrderIndependent ==
    /\ Creating =>
          \A n \in 1..(Len(stored) - 1) : \A d \in Domains :
              Names(stored[n], info.RemoteIP, d) =>
                  /\ d \in DOMAIN stats[info.RemoteIP].DNSNames
                  /\ stats[info.RemoteIP].DNSNames[d] =
                        1 + (IF Names(info, info.RemoteIP, d)
                             THEN Listed(info.DNSResponseIPs, info.RemoteIP)
                             ELSE 0)
    /\ \A ip \in DOMAIN stats : \A n \in 1..Len(stored) : \A d \in Domains :
          Names(stored[n], ip, d) =>
              /\ d \in DOMAIN stats[ip].DNSNames
              /\ stats[ip].DNSNames[d] >= 1
    /\ (Stored /\ \E n \in 1..(Len(stored) - 1) :
                      /\ stored[n].RemoteIP # "" /\ info.RemoteIP # ""
                      /\ stored[n].IsDNS /\ info.IsDNS
                      /\ stored[n].DNSQueryName = info.DNSQueryName
                      /\ stored[n].DNSResponseIPs = info.DNSResponseIPs) =>
          /\ dnsCache = dsBefore.dnsCache
          /\ \A ip \in DOMAIN dsBefore.stats :
                DOMAIN stats[ip].DNSNames = DOMAIN dsBefore.stats[ip].DNSNames

\* The same DNS response was stored twice, then the first packet of the IP
\* it names: the domain is in the new DNS-name table once.
C13_Witness ==
    /\ Creating
    /\ info.RemoteIP = Remote
    /\ ~info.IsDNS
    /\ Len(stored) = 3
    /\ Names(stored[1], Remote, "bad.example")
    /\ Names(stored[2], Remote, "bad.example")
    /\ stats[Remote].DNSNames = ("bad.example" :> 1)
    /\ dnsCache[Remote] = <<"bad.example">>

\* C14: the DNS cache lists no domain twice for one IP, and it only grows:
\* a Store call keeps every IP of the cache and keeps its list as a prefix
\* of the new one.
C14_CacheAppendOnly ==
    /\ \A ip \in DOMAIN dnsCache :
          \A a, b \in 1..Len(dnsCache[ip]) :
              a # b => dnsCache[ip][a] # dnsCache[ip][b]
    /\ Stored =>
          \A ip \in DOMAIN dsBefore.dnsCache :
              /\ ip \in DOMAIN dnsCache
              /\ Len(dsBefore.dnsCache[ip]) <= Len(dnsCache[ip])
              /\ SubSeq(dnsCache[ip], 1, Len(dsBefore.dnsCache[ip]))
                    = dsBefore.dnsCache[ip]

\* An IP with two cached domains, the second from a response that lists the
\* IP twice, after the response carrying the first domain was stored again.
C14_Witness ==
    /\ Stored
    /\ info.DNSQueryName = "bad.example"
    /\ info.RemoteIP # ""
    /\ info.DNSResponseIPs = <<Remote>>
    /\ Remote \in DOMAIN dsBefore.dnsCache
    /\ dsBefore.dnsCache[Remote] = <<"bad.example", "cdn.example">>
    /\ dnsCache[Remote] = <<"bad.example", "cdn.example">>

\* C15: GetTotalBytes is the sum of the lengths of the packets given to Store
\* with a non-empty remote IP, and GetTotalPackets is their number.
C15_GlobalTotals ==
    /\ GetTotalBytes(stats) = SumLengths(Kept)
    /\ GetTotalPackets(stats) = Len(Kept)

\* Three Store calls: two for different remote IPs and one without a remote
\* IP, which the totals leave out.
C15_Witness ==
    /\ Len(stored) = 3
    /\ Len(Kept) = 2
    /\ GetIPCount(stats) = 2
    /\ GetTotalPackets(stats) = 2
    /\ GetTotalBytes(stats) = 190
    /\ SumLengths(stored) > 190

Directed(i) == i.Direction = "send" \/ i.Direction = "recv"
Undirected(i) == ~Directed(i)

\* C16: for every RemoteIPStats, SendPackets + RecvPackets <= TotalPackets
\* and the difference is the number of the IP's packets whose direction is
\* neither "send" nor "recv"; when there is no such packet, TotalPackets ==
\* SendPackets + RecvPackets and TotalBytes == SendBytes + RecvBytes.
C16_DirectionSplit ==
    \A ip \in DOMAIN stats :
        LET st    == stats[ip]
            other == HowMany(PacketsOf(ip), Undirected)
        IN  /\ st.SendPackets + st.RecvPackets <= st.TotalPackets
            /\ st.TotalPackets - (st.SendPackets + st.RecvPackets) = other
            /\ st.SendPackets =
                  HowMany(PacketsOf(ip), LAMBDA i : i.Direction = "send")
            /\ st.RecvPackets =
                  HowMany(PacketsOf(ip), LAMBDA i : i.Direction = "recv")
            /\ other = 0 =>
                  /\ st.TotalPackets = st.SendPackets + st.RecvPackets
                  /\ st.TotalBytes = st.SendBytes + st.RecvBytes

\* One IP with a sent and a received packet, another with a local packet
\* only.
C16_Witness ==
    /\ Remote \in DOMAIN stats
    /\ Neighbour \in DOMAIN stats
    /\ stats[Remote].SendPackets = 1 /\ stats[Remote].RecvPackets = 1
    /\ stats[Remote].TotalBytes = 160
    /\ stats[Neighbour].TotalPackets = 1
    /\ stats[Neighbour].SendPackets + stats[Neighbour].RecvPackets = 0

RECURSIVE SumPacketSize(_)
SumPacketSize(q) ==
    IF q = <<>> THEN 0 ELSE Head(q).PacketSize + SumPacketSize(Tail(q))

\* C17: for every RemoteIPStats, TotalPackets is the number of its
\* ConnectionRecords, TotalBytes is the sum of their PacketSize, and the
\* records are the IP's packets in the order they were stored.
C17_RecordsMatchTotals ==
    \A ip \in DOMAIN stats :
        LET st == stats[ip]
            pk == PacketsOf(ip)
        IN  /\ st.TotalPackets = Len(st.Records)
            /\ st.TotalBytes = SumPacketSize(st.Records)
            /\ Len(st.Records) = Len(pk)
            /\ \A n \in 1..Len(pk) :
                  /\ st.Records[n].Timestamp = pk[n].Timestamp
                  /\ st.Records[n].PacketSize = pk[n].Length
                  /\ st.Records[n].LocalPort = pk[n].LocalPort
                  /\ st.Records[n].RemotePort = pk[n].RemotePort
                  /\ st.Records[n].Direction = pk[n].Direction
                  /\ st.Records[n].Protocol = pk[n].Protocol
                  /\ st.Records[n].TCPFlags = pk[n].TCPFlags
                  /\ st.Records[n].IsTLS = pk[n].IsTLS
                  /\ st.Records[n].SNI = pk[n].SNI
                  /\ st.Records[n].ProcessName = pk[n].ProcessName

\* Three packets of different sizes stored for one IP.
C17_Witness ==
    /\ Remote \in DOMAIN stats
    /\ Len(stats[Remote].Records) = 3
    /\ stats[Remote].Records[1].PacketSize = 60
    /\ stats[Remote].Records[2].PacketSize = 100
    /\ stats[Remote].Records[3].PacketSize = 28
    /\ stats[Remote].TotalBytes = 188

SumCounts(m) == SumOver(m, DOMAIN m)

\* The tables that are counted from the IP's own packets.
RecordTablesSum(ip) ==
    LET st == stats[ip]
        pk == PacketsOf(ip)
    IN  /\ SumCounts(st.RemotePorts) =
              HowMany(pk, LAMBDA i : i.RemotePort # "")
        /\ SumCounts(st.LocalPorts) =
              HowMany(pk, LAMBDA i : i.LocalPort # "")
        /\ SumCounts(st.SNINames) = HowMany(pk, LAMBDA i : i.SNI # "")
        /\ SumCounts(st.Processes) =
              HowMany(pk, LAMBDA i : i.ProcessName # "")
        /\ SumCounts(st.Protocols) = HowMany(pk, LAMBDA i : i.Protocol # "")
        /\ st.TLSCount = HowMany(pk, LAMBDA i : i.IsTLS)

\* C18 (as stated): for each of the six frequency tables, the DNS-name table
\* included, the counts sum to the number of the IP's packets that carry a
\* non-empty value for that dimension; TLSCount is the number with is_tls.
C18_TableSumsAsStated ==
    \A ip \in DOMAIN stats :
        /\ RecordTablesSum(ip)
        /\ SumCounts(stats[ip].DNSNames) =
              HowMany(PacketsOf(ip), LAMBDA i : i.DNSQueryName # "")

\* C18 (amended): the remote-port, local-port, SNI, process and protocol
\* tables and TLSCount are counted from the IP's own packets as stated.  The
\* DNS-name table is not: a new RemoteIPStats starts with count 1 for every
\* domain cached for its IP, and each Store of a DNS response adds 1 for every
\* listing of an IP that has a RemoteIPStats, whichever IP the response
\* itself is stored under.
C18_TableSums ==
    /\ \A ip \in DOMAIN stats : RecordTablesSum(ip)
    /\ Stored =>
          \A ip \in DOMAIN stats :
              SumCounts(stats[ip].DNSNames) =
                  (IF ip \in DOMAIN dsBefore.stats
                   THEN SumCounts(dsBefore.stats[ip].DNSNames)
                   ELSE IF ip \in DOMAIN dsBefore.dnsCache
                        THEN Len(dsBefore.dnsCache[ip])
                        ELSE 0)
                  + (IF info.RemoteIP # "" /\ info.IsDNS
                        /\ info.DNSQueryName # ""
                     THEN Listed(info.DNSResponseIPs, ip)
                     ELSE 0)

\* An IP whose packets leave some dimensions empty, and whose DNS-name table
\* was counted from a response stored under the resolver's IP.
C18_Witness ==
    /\ Stored
    /\ Remote \in DOMAIN stats
    /\ Len(stats[Remote].Records) = 2
    /\ SumCounts(stats[Remote].SNINames) = 1
    /\ SumCounts(stats[Remote].RemotePorts) = 1
    /\ stats[Remote].TLSCount = 1
    /\ HowMany(PacketsOf(Remote), LAMBDA i : i.DNSQueryName # "") = 0
    /\ SumCounts(stats[Remote].DNSNames) = 1

\* C19: Store does nothing for a packet whose RemoteIP is empty, a DNS
\* response with a query name and response IPs included: no RemoteIPStats is
\* created or changed and the DNS cache is unchanged.
C19_EmptyRemoteIPNoOp ==
    (Stored /\ info.RemoteIP = "") =>
        /\ stats = dsBefore.stats
        /\ dnsCache = dsBefore.dnsCache

\* A DNS response without a remote IP, naming an IP that has a RemoteIPStats
\* and is not in the cache, was given to Store.
C19_Witness ==
    /\ Stored
    /\ info.RemoteIP = ""
    /\ info.IsDNS /\ info.DNSQueryName = "bad.example"
    /\ info.DNSResponseIPs = <<Remote>>
    /\ Remote \in DOMAIN stats
    /\ stats[Remote].DNSNames = <<>>
    /\ Remote \notin DOMAIN dnsCache

\* C20: an IP has a RemoteIPStats exactly when a packet with that remote IP
\* has been stored; a Store call creates at most the RemoteIPStats of its own
\* packet's IP and removes none; FirstSeen is the timestamp of the IP's first
\* stored packet and no later Store changes it; LastSeen is the timestamp of
\* the IP's most recently stored packet, so FirstSeen <= LastSeen when the
\* timestamps were stored in non-decreasing order.
C20_StatsLifetime ==
    /\ DOMAIN stats = {Kept[n].RemoteIP : n \in 1..Len(Kept)}
    /\ Stored =>
          /\ DOMAIN dsBefore.stats \subseteq DOMAIN stats
          /\ DOMAIN stats \ DOMAIN dsBefore.stats \subseteq {info.RemoteIP}
          /\ \A ip \in DOMAIN dsBefore.stats :
                stats[ip].FirstSeen = dsBefore.stats[ip].FirstSeen
    /\ \A ip \in DOMAIN stats :
          LET pk == PacketsOf(ip)
          IN  /\ stats[ip].RemoteIP = ip
              /\ stats[ip].FirstSeen = pk[1].Timestamp
              /\ stats[ip].LastSeen = pk[Len(pk)].Timestamp
              /\ (\A n \in 1..(Len(pk) - 1) :
                     pk[n].Timestamp <= pk[n + 1].Timestamp)
                    => stats[ip].FirstSeen <= stats[ip].LastSeen

\* An IP with three stored packets, the first at time 1 and the last at time
\* 2, beside an IP that a DNS response made known before its first packet.
C20_Witness ==
    /\ Stored
    /\ Len(PacketsOf(Resolver)) = 3
    /\ stats[Resolver].FirstSeen = 1
    /\ stats[Resolver].LastSeen = 2
    /\ dsBefore.stats[Resolver].LastSeen = 1
    /\ Remote \in DOMAIN dnsCache
    /\ Remote \notin DOMAIN stats

\* The count a frequency table holds for a value: 0 when it is not a key.
CountOf(m, v) == IF v \in DOMAIN m THEN m[v] ELSE 0

\* The DNS-name count of ip for domain d before the last Store touched it:
\* the old count of a RemoteIPStats that existed, the seed from the cache for
\* one that the call created.
DNSCountBefore(ip, d) ==
    IF ip \in DOMAIN dsBefore.stats
    THEN CountOf(dsBefore.stats[ip].DNSNames, d)
    ELSE IF ip \in DOMAIN dsBefore.dnsCache
              /\ \E n \in 1..Len(dsBefore.dnsCache[ip]) :
                    dsBefore.dnsCache[ip][n] = d
         THEN 1 ELSE 0

CacheBefore(ip) ==
    IF ip \in DOMAIN dsBefore.dnsCache THEN dsBefore.dnsCache[ip] ELSE <<>>

\* C21: DNS dual update.  A Store (of a packet with a remote IP) that carries
\* a DNS response with query name D # "" and resolved IPs R # <<>> leaves D
\* in the cache entry of every IP of R, appended only when it was not listed,
\* changes no other cache entry, and adds to the DNS-name count for D of
\* every IP that has a RemoteIPStats one per listing of that IP in R, leaving
\* every other DNS-name count alone.  A Store of a DNS packet with an empty
\* query name or no resolved IPs leaves the cache and every existing
\* DNS-name table unchanged.
C21_DNSDualUpdate ==
    /\ (Stored /\ info.RemoteIP # "" /\ info.IsDNS /\ info.DNSQueryName # ""
               /\ info.DNSResponseIPs # <<>>) =>
          LET D == info.DNSQueryName
              R == info.DNSResponseIPs
          IN  /\ \A ip \in DOMAIN dnsCache :
                    dnsCache[ip] =
                        IF Listed(R, ip) = 0 THEN CacheBefore(ip)
                        ELSE IF \E n \in 1..Len(CacheBefore(ip)) :
                                    CacheBefore(ip)[n] = D
                             THEN CacheBefore(ip)
                             ELSE Append(CacheBefore(ip), D)
              /\ \A n \in 1..Len(R) : R[n] \in DOMAIN dnsCache
              /\ DOMAIN dsBefore.dnsCache \subseteq DOMAIN dnsCache
              /\ \A ip \in DOMAIN stats : \A d \in Domains :
                    CountOf(stats[ip].DNSNames, d) =
                        DNSCountBefore(ip, d)
                        + (IF d = D THEN Listed(R, ip) ELSE 0)
    /\ (Stored /\ info.IsDNS
               /\ (info.DNSQueryName = "" \/ info.DNSResponseIPs = <<>>)) =>
          /\ dnsCache = dsBefore.dnsCache
          /\ \A ip \in DOMAIN dsBefore.stats :
                stats[ip].DNSNames = dsBefore.stats[ip].DNSNames

\* A response for a second domain, listing an IP with a RemoteIPStats twice
\* and the resolver once, was stored: the IP's cache entry grew by the domain
\* once and its DNS-name count by two.
C21_Witness ==
    /\ Stored
    /\ info.DNSQueryName = "cdn.example"
    /\ info.DNSResponseIPs = <<Remote, Resolver, Remote>>
    /\ Remote \in DOMAIN dsBefore.stats
    /\ dsBefore.stats[Remote].DNSNames = ("bad.example" :> 1)
    /\ stats[Remote].DNSNames = ("bad.example" :> 1) @@ ("cdn.example" :> 2)
    /\ stats[Resolver].DNSNames = ("cdn.example" :> 1)
    /\ dnsCache[Remote] = <<"bad.example", "cdn.example">>
    /\ dnsCache[Resolver] = <<"cdn.example">>

\* The store after a sequence of whole Store calls.
RECURSIVE Replay(_)
Replay(q) ==
    IF q = <<>> THEN [stats |-> <<>>, dnsCache |-> <<>>]
    ELSE StoreOn(Replay(SubSeq(q, 1, Len(q) - 1)), q[Len(q)])

\* C22: snapshot reads are point-in-time on the key set only.  The map
\* GetStats returned keeps exactly the remote IPs the store held when it was
\* copied, whatever is stored afterwards; reading through one of its entries
\* yields the store's present RemoteIPStats of that IP, later Store calls
\* included; and what GetStats read under the shared lock is the store as
\* left by whole Store calls, never one between the first and the last write
\* of a call.
C22_SnapshotKeysOnly ==
    /\ DOMAIN snapshot = DOMAIN seen.stats
    /\ DOMAIN snapshot \subseteq DOMAIN stats
    /\ \A k \in DOMAIN snapshot : Deref(snapshot[k], stats) = stats[k]
    /\ seen.stats = Replay(seen.stored).stats
    /\ readPc = "unlock" => storePc \in {"idle", "lock"}

\* A snapshot taken after one Store; since then a packet of a new IP was
\* stored whose DNS response also changed the RemoteIPStats of the IP in the
\* snapshot.
C22_Witness ==
    /\ op = "Store"
    /\ readPc = "idle"
    /\ DOMAIN snapshot = {Remote}
    /\ DOMAIN stats = {Remote, Resolver}
    /\ seen.stats[Remote] # stats[Remote]
    /\ Deref(snapshot[Remote], stats).DNSNames # <<>>
    /\ seen.stats[Remote].DNSNames = <<>>

\* ---------------------------------------------- properties of PacketParser
\* C28: for a well-formed ClientHello record, extractSNI returns exactly the
\* bytes of the first server name entry of name type 0 in the server_name
\* extension, whatever extensions and entries of other name types come
\* before it, and the empty string when the ClientHello has no server_name
\* extension, no extensions at all, or no entry of name type 0.
C28_SNIExtracted ==
    (op = "extractSNI" /\ sniCase.kind = "wellformed") =>
        /\ ~sniOut.panic
        /\ sniOut.sni = sniCase.name

\* "example.com" was returned for the ClientHello in which another
\* extension and an entry of name type 1 come first.
C28_Witness ==
    /\ op = "extractSNI"
    /\ sniCase.payload = FromBytes(HelloMixed)
    /\ sniOut.sni = FromBytes(ExampleCom)
    /\ len(sniOut.sni) = 11

\* C29: SNI parsing fails closed.  extractSNI and parseSNIExtension read no
\* index outside the payload, whatever the payload; and they return the
\* empty string when the payload is cut short anywhere, when the record,
\* session id, cipher suites, compression methods, extensions block,
\* extension, name list or name length points past the bytes that are
\* there, and when the handshake type is not 1.
C29_SNIFailsClosed ==
    op = "extractSNI" =>
        /\ ~sniOut.panic
        /\ sniCase.kind = "past" => sniOut.sni = <<>>

\* The ClientHello cut 1 byte short, its record length saying so: the name
\* length points 1 byte past the end, and the result is empty.
C29_Witness ==
    /\ op = "extractSNI"
    /\ sniCase.payload = FromBytes(TruncatedRecord(HelloPlain, 71))
    /\ sniCase.kind = "past"
    /\ sniOut = NoSNI

\* ---- the decoded packet ----
\* The last operation was a Parse call that returned a PacketInfo.
Decoded == op = "Parse" /\ parsed # NilInfo

\* The octets of an IPv4 address of the model; <<>> for any other string.
Octets(ip) ==
    IF \E a \in AddressTable : a[1] = ip
    THEN (CHOOSE a \in AddressTable : a[1] = ip)[2]
    ELSE <<>>

\* The address lies in 10.0.0.0/8, 172.16.0.0/12, 192.168.0.0/16,
\* 127.0.0.0/8 or 169.254.0.0/16.
Local(ip) ==
    LET o == Octets(ip)
    IN  /\ o # <<>>
        /\ \/ o[1] = 10
           \/ o[1] = 172 /\ o[2] \div 16 = 1
           \/ o[1] = 192 /\ o[2] = 168
           \/ o[1] = 127
           \/ o[1] = 169 /\ o[2] = 254

\* C26: direction classification.  Every decoded packet has direction recv
\* with the source as remote (remote port the source port, local port the
\* destination port) iff the source is not local and the destination is;
\* direction send with the destination as remote iff the destination is not
\* local; direction local with the destination as remote iff both are local.
C26_Direction ==
    Decoded =>
        LET sl == Local(parsed.SrcIP)
            dl == Local(parsed.DstIP)
        IN  /\ (/\ parsed.Direction = "recv"
                /\ parsed.RemoteIP = parsed.SrcIP
                /\ parsed.RemotePort = parsed.SrcPort
                /\ parsed.LocalPort = parsed.DstPort) <=> (~sl /\ dl)
            /\ (/\ parsed.Direction = "send"
                /\ parsed.RemoteIP = parsed.DstIP) <=> ~dl
            /\ (/\ parsed.Direction = "local"
                /\ parsed.RemoteIP = parsed.DstIP) <=> (sl /\ dl)

\* A datagram from 172.32.0.1, just outside 172.16.0.0/12, to 172.31.255.1,
\* just inside it, was classified recv with 172.32.0.1 as the remote.
C26_Witness ==
    /\ Decoded
    /\ pkt.src = "172.32.0.1"
    /\ pkt.dst = "172.31.255.1"
    /\ parsed.Direction = "recv"
    /\ parsed.RemoteIP = "172.32.0.1"
    /\ parsed.RemotePort = "50000"
    /\ parsed.LocalPort = "443(https)"

\* Byte 0 is 0x16 and bytes 1-2 are a version in 0x0301..0x0304.
TLSMarked(b) ==
    /\ ByteAt(b, 0) = 22
    /\ ByteAt(b, 1) * 256 + ByteAt(b, 2) >= 769
    /\ ByteAt(b, 1) * 256 + ByteAt(b, 2) <= 772

\* C27 (as stated): a decoded packet has isTLS set iff byte 0 of its payload
\* is 0x16 and bytes 1-2 are a version in 0x0301..0x0304, for every payload
\* that has those three bytes, a 5-byte empty TLS record included.
C27_TLSDetectedAsStated ==
    Decoded /\ len(parsed.Payload) >= 3 =>
        (parsed.IsTLS <=> TLSMarked(parsed.Payload))

\* C27: a decoded packet has isTLS set iff its payload is at least 6 bytes
\* long, byte 0 is 0x16 and bytes 1-2 are a version in 0x0301..0x0304; a
\* payload of 3 to 5 bytes is never marked as TLS.
C27_TLSDetected ==
    Decoded =>
        (parsed.IsTLS <=>
            len(parsed.Payload) >= 6 /\ TLSMarked(parsed.Payload))

\* The reassembler returned the 5-byte record 16 03 03 00 00 as complete and
\* Parse did not mark it as TLS.
C27_Witness ==
    /\ Decoded
    /\ pkt.transport = "TCP"
    /\ ret.data = EmptyRecord
    /\ parsed.Payload = EmptyRecord
    /\ len(parsed.Payload) = 5
    /\ TLSMarked(parsed.Payload)
    /\ ~parsed.IsTLS

\* The packet Parse was given is a UDP datagram on port 53 whose payload
\* gopacket decoded as DNS.
DNSPacket ==
    /\ pkt.transport = "UDP"
    /\ pkt.srcPort = 53 \/ pkt.dstPort = 53
    /\ pkt.dns.present

\* The addresses of the A and AAAA records among answers, in answer order.
AddressesOf(answers) ==
    LET sel == SelectSeq(answers, LAMBDA a : a.Type \in {"A", "AAAA"})
    IN  [k \in 1..Len(sel) |-> sel[k].IP]

\* C30: DNS gating.  A decoded packet with isDNS set is UDP with source or
\* destination port 53; a DNS packet that is not a response has isDNS set,
\* an empty query name and no resolved IPs; for a response the resolved IPs
\* are the addresses of its A and AAAA answers in answer order.
C30_DNSGating ==
    Decoded =>
        /\ parsed.IsDNS =>
              /\ pkt.transport = "UDP"
              /\ parsed.Protocol = "UDP"
              /\ pkt.srcPort = 53 \/ pkt.dstPort = 53
        /\ DNSPacket /\ ~pkt.dns.QR =>
              /\ parsed.IsDNS
              /\ parsed.DNSQueryName = ""
              /\ parsed.DNSResponseIPs = <<>>
        /\ DNSPacket /\ pkt.dns.QR =>
              /\ parsed.IsDNS
              /\ parsed.DNSResponseIPs = AddressesOf(pkt.dns.Answers)

\* A response with CNAME, A, AAAA, TXT, A and A answers was decoded: the four
\* addresses are listed in answer order, the repeated one twice.
C30_Witness ==
    /\ Decoded
    /\ DNSPacket
    /\ pkt.dns.QR
    /\ pkt.dns.Answers = AnswersMixed
    /\ parsed.IsDNS
    /\ parsed.DNSQueryName = "bad.example"
    /\ parsed.DNSResponseIPs =
           <<"1.2.3.4", "2001:db8::1", "93.184.216.34", "1.2.3.4">>

\* ---- the capture program ----
\* main is inside PrintStats or SaveToJSON.
Exporting ==
    mainPc \in {"PrintStats", "PrintStats.copy", "SaveToJSON",
                "SaveToJSON.copy"}

\* C23: shutdown ordering.  Once the capture loop has taken the shutdown
\* signal and the final export (PrintStats, SaveToJSON) has begun, the
\* reassembler's sweep goroutine and the process monitor's refresh goroutine
\* have both terminated, so neither runs nor writes to its store during the
\* export.
C23_StoppedBeforeExport ==
    Exporting =>
        /\ sweeper = "exited"
        /\ refresher \in {"none", "exited"}

\* The locks a goroutine holds, exclusively or shared.
Held(who) ==
    {l \in {"sr", "ds", "pm"} : mu[l].writer = who \/ who \in mu[l].readers}

\* The lock a goroutine is waiting for, if any: it stands before an
\* acquisition that cannot be granted now.
MainWaitsFor ==
    IF mainPc \in {"sr.Lock", "sr.Lock2"} /\ ~CanLock(mu.sr) THEN {"sr"}
    ELSE IF mainPc = "pm.RLock" /\ ~CanRLock(mu.pm) THEN {"pm"}
    ELSE IF mainPc = "pm.Lock" /\ ~CanLock(mu.pm) THEN {"pm"}
    ELSE IF mainPc = "ds.Lock" /\ ~CanLock(mu.ds) THEN {"ds"}
    ELSE IF mainPc \in {"PrintStats", "SaveToJSON"} /\ ~CanRLock(mu.ds)
    THEN {"ds"}
    ELSE {}

\* The goroutines that hold lock l.
Holders(l) == {who \in {"main", "sweeper", "refresher"} : l \in Held(who)}

\* A goroutine inside a critical section is at a step that takes no lock:
\* its next step is the one that releases.
Releasing(who) ==
    CASE who = "main" ->
           mainPc \in {"lookup", "delete", "pm.lookup", "pm.cache", "ds.body",
                       "PrintStats.copy", "SaveToJSON.copy"}
      [] who = "sweeper" -> sweeper = "sweeping"
      [] who = "refresher" -> refresher = "refreshing"

\* C24: no deadlock.  No goroutine (capture loop, sweep, process-table
\* refresh) holds two of the three locks at once; a lock is held only inside
\* the critical section that took it, so every path has released it when the
\* operation returns; and every holder of a lock is at an enabled step that
\* releases it without taking another lock, so a goroutine waiting for a
\* lock waits for a holder that is not itself waiting.
C24_NoDeadlock ==
    /\ \A who \in {"main", "sweeper", "refresher"} :
          Cardinality(Held(who)) <= 1
    /\ "sr" \in Held("main") <=> mainPc \in {"lookup", "delete"}
    /\ "pm" \in Held("main") <=> mainPc \in {"pm.lookup", "pm.cache"}
    /\ "ds" \in Held("main") <=>
          mainPc \in {"ds.body", "PrintStats.copy", "SaveToJSON.copy"}
    /\ Held("sweeper") = IF sweeper = "sweeping" THEN {"sr"} ELSE {}
    /\ Held("refresher") = IF refresher = "refreshing" THEN {"pm"} ELSE {}
    /\ \A l \in {"sr", "ds", "pm"} : \A who \in Holders(l) : Releasing(who)
    /\ \A l \in MainWaitsFor : Holders(l) # {} /\ "main" \notin Holders(l)

\* main waits for the reassembler lock, which the sweep holds, while the
\* refresh goroutine holds the process-monitor lock.
C24_Witness ==
    /\ mainPc = "sr.Lock2"
    /\ mu.sr.writer = "sweeper"
    /\ mu.pm.writer = "refresher"
    /\ MainWaitsFor = {"sr"}

\* C25: every write to the reassembler's flow state (inserting a buffer,
\* updating its bytes, NextSeq or LastActivity, deleting it) is made while
\* main holds sr.mutex exclusively, and the sweep never reads a buffer's
\* LastActivity while ProcessPacket is writing that buffer.
C25_WritesUnderLock ==
    /\ mainPc \in {"lookup", "touch", "update", "delete"} =>
          mu.sr.writer = "main"
    /\ ~(sweeper = "sweeping" /\ mainPc \in {"touch", "update"}
                              /\ cur.attached)

\* pm.Start() failed: main is past it and no refresh goroutine was started.
StartFailed == mainPc # "Start" /\ refresher = "none"

\* The name is empty exactly when the pid is 0.
NameIffPID(i) == i.ProcessName = "" <=> i.ProcessPID = 0

\* C31: a failed start of the process monitor does not halt the capture.
\* After a failed pm.Start() the capture loop takes and stores packets, and
\* every stored packet has an empty process name and pid 0; when the
\* monitor runs, GetProcessInfoForPacket returns an empty name exactly when
\* it returns pid 0.
C31_ResolverFailure ==
    /\ StartFailed =>
          \A k \in 1..Len(stored) :
              stored[k].ProcessName = "" /\ stored[k].ProcessPID = 0
    /\ \A k \in 1..Len(stored) : NameIffPID(stored[k])
    /\ parsed # NilInfo => NameIffPID(parsed)

\* After a failed start two packets were taken and stored, both without
\* process name.
C31_Witness ==
    /\ StartFailed
    /\ ~pm.running
    /\ mainPc = "select"
    /\ Len(stored) = 2
    /\ stored[2].ProcessName = ""
    /\ stored[2].ProcessPID = 0

\* ---- C32: the capture loop is sequential ----

\* The shutdown branch has been taken: the export runs or main has left it.
ShutdownBegun == Exporting \/ mainPc \in {"return", "parser.Stop", "returned"}

\* The capture indexes of the records kept for one remote IP.
RecordStamps(ip) ==
    [k \in 1..Len(stats[ip].Records) |-> stats[ip].Records[k].Timestamp]

Increasing(q) == \A j, k \in 1..Len(q) : j < k => q[j] < q[k]

\* Between two selects exactly one packet is in flight: every packet taken
\* before it has left ProcessPacket, and whatever Store has accepted belongs
\* to a packet already taken.
OnePacketInFlight ==
    /\ Len(captured) \in {calls - 1, calls}
    /\ mainPc \in {"Start", "select"} \cup {"returned"} => Len(captured) = calls
    /\ Len(captured) = calls - 1 =>
          \A k \in 1..Len(stored) : stored[k].Timestamp < calls
    /\ \A k \in 1..Len(stored) : stored[k].Timestamp \in 1..calls

\* The records of every remote IP are in capture order.
RecordsInCaptureOrder ==
    /\ \A ip \in DOMAIN stats :
          /\ Increasing(RecordStamps(ip))
          /\ stats[ip].Records =
                [k \in 1..Len(PacketsOf(ip)) |-> ConnectionRecord(PacketsOf(ip)[k])]
    /\ Increasing([k \in 1..Len(stored) |-> stored[k].Timestamp])

\* A step that takes a packet starts from the select with nothing pending; a
\* step that stores is for the packet taken last and is not taken once the
\* shutdown branch has begun.
SequentialStep ==
    /\ calls' # calls =>
          /\ mainPc = "select" /\ calls' = calls + 1
          /\ Len(captured) = calls
          /\ stored' = stored
    /\ stored' # stored =>
          /\ ~ShutdownBegun
          /\ calls' = calls
          /\ stored' = Append(stored, parsed)
          /\ parsed.Timestamp = calls
    /\ ShutdownBegun => /\ stored' = stored /\ stats' = stats
                        /\ calls' = calls /\ ShutdownBegun'

\* C32: the capture loop is strictly sequential: each packet is reassembled,
\* decoded, attributed and stored before the next one is taken, so the
\* ConnectionRecords of every remote IP are in capture order, and nothing is
\* stored once the shutdown branch has begun the export.
C32_SequentialLoop ==
    /\ [](OnePacketInFlight /\ RecordsInCaptureOrder)
    /\ [][SequentialStep]_vars

\* The export runs over two records of one remote IP, stored in capture order.
C32_Witness ==
    /\ Exporting
    /\ \E ip \in DOMAIN stats :
          /\ Len(stats[ip].Records) = 2
          /\ RecordStamps(ip) = <<1, 2>>

\* ---- C33: ProcessPacket against the idle sweep ----

\* C33: under any interleaving of ProcessPacket with the idle sweep, a payload
\* segment that ProcessPacket accepted into a flow's buffer and answered with
\* ready=false is still held in the flow map when the call returns, so the
\* next in-order segment of the flow is appended to it.
C33_AcceptedSegmentHeld ==
    \A k \in 1..Len(captured) :
        (captured[k].tcp /\ captured[k].accepted /\ ~captured[k].ready)
            => captured[k].held

\* ---- C34: what the flow map holds between calls ----

\* A buffer that peekTLSRecord would not hand out: shorter than a record
\* header, or a 0x16 record shorter than its header announces.
Incomplete(buffer) ==
    \/ len(buffer) < 5
    \/ /\ ByteAt(buffer, 0) = 22
       /\ len(buffer) < 5 + ByteAt(buffer, 3) * 256 + ByteAt(buffer, 4)

\* C34: between ProcessPacket calls every buffer in the flow map is
\* initialized, non-empty and incomplete: it holds fewer than 5 bytes, or it
\* starts with 0x16 and holds fewer than 5 + its declared record length
\* bytes; a complete buffer is never left in the map.
C34_MapHoldsIncomplete ==
    \A k \in DOMAIN streams :
        /\ streams[k].Initialized
        /\ len(streams[k].Buffer) > 0
        /\ Incomplete(streams[k].Buffer)

\* The map holds a record header with part of its body next to a flow of
\* fewer than 5 bytes.
C34_Witness ==
    /\ Segment /\ HadBuffer /\ ~ret.ready
    /\ streams[Flow].Buffer = append(HelloA, HelloB)
    /\ \E k \in DOMAIN streams : len(streams[k].Buffer) < 5

\* ---- C35: DNS-name tables against the DNS cache ----

\* The domains the DNS cache lists for an IP.
CachedDomains(ip) ==
    IF ip \in DOMAIN dnsCache
    THEN {dnsCache[ip][n] : n \in 1..Len(dnsCache[ip])}
    ELSE {}

\* C35: after any sequence of Store calls, for every IP that has a
\* RemoteIPStats the keys of its DNS-name table are exactly the domains the
\* DNS cache lists for that IP, each with a count of at least 1.
C35_DNSNamesMatchCache ==
    \A ip \in DOMAIN stats :
        /\ DOMAIN stats[ip].DNSNames = CachedDomains(ip)
        /\ \A d \in DOMAIN stats[ip].DNSNames : stats[ip].DNSNames[d] >= 1

\* One IP was seeded from the cache and later named twice under a second
\* domain by a response that also names the resolver it came from.
C35_Witness ==
    /\ Stored
    /\ Remote \in DOMAIN stats
    /\ Len(stats[Remote].Records) = 1
    /\ Len(stored) = 3
    /\ DOMAIN stats[Remote].DNSNames = {"bad.example", "cdn.example"}
    /\ CachedDomains(Remote) = {"bad.example", "cdn.example"}
    /\ stats[Remote].DNSNames["cdn.example"] = 2
    /\ stats[Resolver].DNSNames = ("cdn.example" :> 1)
    /\ Neighbour \notin DOMAIN dnsCache

\* ---- C36: what reaches the aggregation store ----

\* The ConnectionRecords made for the packet with capture index n, as
\* <<remote IP, position>>.
RecordsOfPacket(n) ==
    UNION { { <<ip, k>> : k \in { j \in 1..Len(stats[ip].Records) :
                                     stats[ip].Records[j].Timestamp = n } }
            : ip \in DOMAIN stats }

\* Packet n completed a unit that earlier segments had started.
CompletedUnit(n) ==
    /\ captured[n].tcp /\ captured[n].ready
    /\ captured[n].data > captured[n].payload

\* main is between two packets, or past the loop.
BetweenPackets == mainPc = "select" \/ ShutdownBegun

\* Only packets answered with ready = TRUE are recorded, at most once, with
\* their own wire length.
OnlyReadyRecorded ==
    /\ \A ip \in DOMAIN stats : \A k \in 1..Len(stats[ip].Records) :
          stats[ip].Records[k].Timestamp \in 1..Len(captured)
    /\ \A n \in 1..Len(captured) :
          /\ ~captured[n].ready => RecordsOfPacket(n) = {}
          /\ Cardinality(RecordsOfPacket(n)) <= 1
          /\ \A r \in RecordsOfPacket(n) :
                stats[r[1]].Records[r[2]].PacketSize = captured[n].Length

\* C36 as stated: a packet is recorded only if the reassembler answered
\* ready = TRUE for it, and every completed multi-segment unit has exactly one
\* record, of the completing packet's wire length.
C36_OnlyReadyStoredAsStated ==
    /\ OnlyReadyRecorded
    /\ BetweenPackets =>
          \A n \in 1..Len(captured) :
              CompletedUnit(n) => Cardinality(RecordsOfPacket(n)) = 1

\* C36: a packet is recorded only if the reassembler answered ready = TRUE
\* for it: TCP packets without payload and segments that were buffered,
\* ignored or evicted have no record.  A completed multi-segment unit has at
\* most one record, exactly one when the process filter lets the packet
\* through and none when it does not, and the record's packet size is the
\* wire length of the completing packet alone.
C36_OnlyReadyStored ==
    /\ OnlyReadyRecorded
    /\ (BetweenPackets /\ parsed # NilInfo /\ Len(captured) = calls
            /\ parsed.Timestamp = calls /\ CompletedUnit(calls)) =>
          Cardinality(RecordsOfPacket(calls)) =
              IF shouldDisplay(parsed) THEN 1 ELSE 0

\* The 5-byte header was buffered, the 2-byte body completed the record, and
\* the one record made is of the second packet's 56 bytes.
C36_Witness ==
    /\ mainPc = "select"
    /\ Len(captured) = 2
    /\ ~captured[1].ready /\ captured[1].accepted /\ captured[1].Length = 59
    /\ CompletedUnit(2) /\ captured[2].data = 7 /\ captured[2].payload = 2
    /\ RecordsOfPacket(1) = {}
    /\ RecordsOfPacket(2) = {<<Server, 1>>}
    /\ stats[Server].Records[1].PacketSize = 56
    /\ stats[Server].TotalBytes = 56

====
